---- MODULE Spec2Model ----
(***************************************************************************)
(* A model of the hand-rolled Allure result generator of the test suite    *)
(* (utils/allure_helper.py) and of the scripts that call it.               *)
(*                                                                         *)
(* Strings are TLA+ strings; Python's str methods (lower, strip, split,    *)
(* replace, the `in` substring test) are operators that compute on them    *)
(* character by character.  Instants are counted in clock ticks, a tick    *)
(* being 1/TicksPerMs of a millisecond, so that int(t * 1000) truncates.   *)
(***************************************************************************)
EXTENDS Integers, Sequences, FiniteSets, TLC

(***************************************************************************)
(* Bounds of the model                                                     *)
(***************************************************************************)
(* uuid4() values drawn in one run *)
MaxUuids == 2

(* lines the logger appends to the shared log in one run *)
MaxLogLines == 1

(* lines of a log file handed to the filter *)
MaxFileLines == 2

(* the largest retry_count passed *)
MaxRetryCount == 3

(* the largest retry count configured for a browser action *)
MaxUiRetryCount == 5

(* the longest text a file of the data parser grows to by appending *)
MaxTextLen == 3

(***************************************************************************)
(* Python values                                                           *)
(***************************************************************************)
None == "<None>"

Max(a, b) == IF a >= b THEN a ELSE b

Range(s) == {s[i] : i \in DOMAIN s}

(* s[i:] and s[:i] on strings, 1-based. *)
From(s, i) == SubSeq(s, i, Len(s))

Upto(s, i) == SubSeq(s, 1, i)

CharAt(s, i) == SubSeq(s, i, i)

(* str.lower() on the ASCII letters. *)
LowerChar(c) ==
    CASE c = "A" -> "a" [] c = "B" -> "b" [] c = "C" -> "c" [] c = "D" -> "d"
      [] c = "E" -> "e" [] c = "F" -> "f" [] c = "G" -> "g" [] c = "H" -> "h"
      [] c = "I" -> "i" [] c = "J" -> "j" [] c = "K" -> "k" [] c = "L" -> "l"
      [] c = "M" -> "m" [] c = "N" -> "n" [] c = "O" -> "o" [] c = "P" -> "p"
      [] c = "Q" -> "q" [] c = "R" -> "r" [] c = "S" -> "s" [] c = "T" -> "t"
      [] c = "U" -> "u" [] c = "V" -> "v" [] c = "W" -> "w" [] c = "X" -> "x"
      [] c = "Y" -> "y" [] c = "Z" -> "z" [] OTHER -> c

RECURSIVE Lower(_)
Lower(s) == IF Len(s) = 0 THEN "" ELSE LowerChar(CharAt(s, 1)) \o Lower(From(s, 2))

(* `t in s` for strings. *)
Contains(s, t) == \E i \in 1..(Len(s) - Len(t) + 1) : SubSeq(s, i, i + Len(t) - 1) = t

(* str.find, 1-based; 0 when t does not occur in s. *)
Find(s, t) ==
    IF Contains(s, t)
    THEN CHOOSE i \in 1..(Len(s) - Len(t) + 1) :
            /\ SubSeq(s, i, i + Len(t) - 1) = t
            /\ \A j \in 1..(i - 1) : SubSeq(s, j, j + Len(t) - 1) # t
    ELSE 0

IsSpace(c) == c \in {" ", "\t", "\n", "\r"}

RECURSIVE LStrip(_)
LStrip(s) == IF Len(s) > 0 /\ IsSpace(CharAt(s, 1)) THEN LStrip(From(s, 2)) ELSE s

RECURSIVE RStrip(_)
RStrip(s) ==
    IF Len(s) > 0 /\ IsSpace(CharAt(s, Len(s))) THEN RStrip(Upto(s, Len(s) - 1)) ELSE s

(* str.strip() *)
Strip(s) == RStrip(LStrip(s))

(* str.split(sep, maxsplit): at most maxsplit cuts, left to right. *)
RECURSIVE Split(_, _, _)
Split(s, sep, maxsplit) ==
    LET i == Find(s, sep)
    IN  IF maxsplit = 0 \/ i = 0
        THEN <<s>>
        ELSE <<Upto(s, i - 1)>> \o Split(From(s, i + Len(sep)), sep, maxsplit - 1)

(* str.replace(old, new) for a one-character old. *)
RECURSIVE ReplaceChar(_, _, _)
ReplaceChar(s, old, new) ==
    IF Len(s) = 0 THEN ""
    ELSE (IF CharAt(s, 1) = old THEN new ELSE CharAt(s, 1))
            \o ReplaceChar(From(s, 2), old, new)

(* str.replace(old, new): every occurrence, left to right, not overlapping. *)
RECURSIVE Replace(_, _, _)
Replace(s, old, new) ==
    LET i == Find(s, old)
    IN  IF i = 0 THEN s
        ELSE Upto(s, i - 1) \o new \o Replace(From(s, i + Len(old)), old, new)

(***************************************************************************)
(* State                                                                   *)
(***************************************************************************)
VARIABLES
    now,        \* the wall clock, time.time(), in ticks
    dirExists,  \* os.path.exists(self.results_dir)
    entries,    \* the results directory: file name -> [kind, mtime, data]
    nextUuid,   \* how many uuid4() values have been drawn
    logFile,    \* the shared log file at LogPath: NoFile or [readable, text, mtime]
    last,       \* the last call: [op, raised, ...]; raised is None when it returned
    callsSinceClean, \* generate_test_result calls that returned and whose document
                     \* no clean has removed since
    run         \* the caller of the helper that is under way: [site, pc, ...]

(***************************************************************************)
(* The log file, as open(log_file, 'r', encoding=...) sees it               *)
(***************************************************************************)
LogPath == "logs/automation.log"

NoFile == [absent |-> TRUE]

DecodeError == <<"UnicodeDecodeError">>

(* allure_helper.py:278 *)
encodings == <<"utf-8", "latin-1", "cp1252", "iso-8859-1">>

PathExists(path) == path = LogPath /\ logFile # NoFile

(* open(...).readlines() under one encoding: the lines, or the exception raised. *)
OpenReadLines(file, encoding) ==
    IF ~file.readable THEN [exc |-> "PermissionError", lines |-> <<>>]
    ELSE IF file.text[encoding] = DecodeError
         THEN [exc |-> "UnicodeDecodeError", lines |-> <<>>]
         ELSE [exc |-> None, lines |-> file.text[encoding]]

(* The loop over encodings: the first that decodes wins, a UnicodeDecodeError
   moves on to the next, any other exception leaves the loop. *)
RECURSIVE ReadWithEncodings(_, _)
ReadWithEncodings(file, encs) ==
    IF encs = <<>> THEN [exc |-> None, lines |-> <<>>]
    ELSE LET r == OpenReadLines(file, Head(encs))
         IN  IF r.exc = "UnicodeDecodeError" THEN ReadWithEncodings(file, Tail(encs))
             ELSE r

(***************************************************************************)
(* Steps                                                                   *)
(***************************************************************************)
Step(name, status, start, stop) ==
    [name |-> name, status |-> status, stage |-> "finished",
     start |-> start, stop |-> stop, steps |-> <<>>, attachments |-> <<>>]

(* A variant with the three placeholders Starting, Running, Completed. *)
_get_basic_steps_three(test_name, start_time_ms, end_time_ms) ==
    LET duration == end_time_ms - start_time_ms
        step_duration == Max(100, duration \div 3)
    IN  << Step("Step 1: Starting " \o test_name, "passed",
                start_time_ms, start_time_ms + step_duration),
           Step("Step 2: Running " \o test_name, "passed",
                start_time_ms + step_duration, start_time_ms + (step_duration * 2)),
           Step("Step 3: Completed " \o test_name, "passed",
                start_time_ms + (step_duration * 2), end_time_ms) >>

_get_basic_steps(test_name, start_time_ms, end_time_ms) ==
    LET duration == end_time_ms - start_time_ms
        step_duration == Max(100, duration \div 5)
    IN  << Step("Step 1: Starting " \o test_name, "passed",
                start_time_ms, start_time_ms + step_duration),
           Step("Step 2: Initializing test execution", "passed",
                start_time_ms + step_duration, start_time_ms + (step_duration * 2)),
           Step("Step 3: Running " \o test_name, "passed",
                start_time_ms + (step_duration * 2), start_time_ms + (step_duration * 3)),
           Step("Step 4: Processing test results", "passed",
                start_time_ms + (step_duration * 3), start_time_ms + (step_duration * 4)),
           Step("Step 5: Completed " \o test_name, "passed",
                start_time_ms + (step_duration * 4), end_time_ms) >>

(* The keyword table of _is_log_for_this_test: name pattern, then keywords,
   in the order of the elif chain. *)
KeywordTable ==
    << [pattern |-> "search project relay",
        keywords |-> {"search project relay", "searching for project", "relay",
                      "welocalize", "projects link", "all projects", "search term",
                      "project link"}],
       [pattern |-> "verify pulled project production status",
        keywords |-> {"verify pulled project production status", "production status",
                      "pulled project", "verify production", "production verification",
                      "starting test verify pulled"}],
       [pattern |-> "create xtm project",
        keywords |-> {"create xtm project", "xtm project creation", "add project",
                      "xtm login", "customer dropdown", "source language",
                      "target language", "workflow"}],
       [pattern |-> "create scheduler job",
        keywords |-> {"create scheduler job", "scheduler job", "developer", "platform",
                      "json", "submit", "refresh", "junction", "authenticate", "payload"}],
       [pattern |-> "project search and segment",
        keywords |-> {"project search and segment", "search project",
                      "segment navigation", "manage jobs", "right-click", "lock icon",
                      "click segment"}],
       [pattern |-> "verify ai task",
        keywords |-> {"verify ai task", "ai task", "ai verification",
                      "task verification"}],
       [pattern |-> "verify mt copy edit",
        keywords |-> {"verify mt copy edit", "mt copy edit", "mt count", "copy edit",
                      "quote mt"}] >>

(* The first branch of the elif chain whose pattern the name contains; 0 if none. *)
MatchingBranch(test_lower) ==
    IF \E i \in DOMAIN KeywordTable : Contains(test_lower, KeywordTable[i].pattern)
    THEN CHOOSE i \in DOMAIN KeywordTable :
            /\ Contains(test_lower, KeywordTable[i].pattern)
            /\ \A j \in 1..(i - 1) : ~Contains(test_lower, KeywordTable[j].pattern)
    ELSE 0

(* A slip: the message and the name compared without lower(). *)
_is_log_for_this_test_cased(message, test_name) ==
    LET b == MatchingBranch(test_name)
    IN  IF b = 0 THEN FALSE
        ELSE \E keyword \in KeywordTable[b].keywords : Contains(message, keyword)

(* A slip: a name with no known pattern lets every message through. *)
_is_log_for_this_test_open(message, test_name) ==
    LET message_lower == Lower(message)
        test_lower == Lower(test_name)
        b == MatchingBranch(test_lower)
    IN  IF b = 0 THEN TRUE
        ELSE \E keyword \in KeywordTable[b].keywords : Contains(message_lower, keyword)

_is_log_for_this_test(message, test_name) ==
    LET message_lower == Lower(message)
        test_lower == Lower(test_name)
        b == MatchingBranch(test_lower)
    IN  IF b = 0 THEN FALSE
        ELSE \E keyword \in KeywordTable[b].keywords : Contains(message_lower, keyword)

(* allure_helper.py:312, the shortest message that can become a step *)
MinMessageLen == 10

(* One log-derived step (allure_helper.py:320-328). *)
LogStep(step_counter, message, start_time_ms) ==
    Step("Step " \o ToString(step_counter) \o ": " \o message, "passed",
         start_time_ms + (step_counter * 1000),
         start_time_ms + (step_counter * 1000) + 100)

(* allure_helper.py:301 *)
IsCandidateLine(line) == Contains(line, "INFO") /\ Contains(line, "automation_framework")

(* A slip: seen_messages never consulted. *)
IsDuplicateNever(message, seen_messages) == FALSE

(* allure_helper.py:307 *)
IsDuplicate(message, seen_messages) == message \in seen_messages

(* allure_helper.py:312 *)
TooShort(message) == Len(Strip(message)) < MinMessageLen

(* The loop over log_lines (allure_helper.py:300-330), with its three
   accumulators: steps, seen_messages and step_counter. *)
RECURSIVE FilterLines(_, _, _, _, _, _)
FilterLines(log_lines, clean_test_name, start_time_ms, steps, seen_messages, step_counter) ==
    IF log_lines = <<>> THEN steps
    ELSE
      LET line == Head(log_lines)
          rest == Tail(log_lines)
          parts == Split(Strip(line), " - ", 3)
          message == parts[4]
      IN  IF ~IsCandidateLine(line)
          THEN FilterLines(rest, clean_test_name, start_time_ms,
                           steps, seen_messages, step_counter)
          ELSE IF ~(Len(parts) >= 4)
          THEN FilterLines(rest, clean_test_name, start_time_ms,
                           steps, seen_messages, step_counter)
          ELSE IF IsDuplicate(message, seen_messages)
          THEN FilterLines(rest, clean_test_name, start_time_ms,
                           steps, seen_messages, step_counter)
          ELSE IF TooShort(message)
          THEN FilterLines(rest, clean_test_name, start_time_ms,
                           steps, seen_messages \cup {message}, step_counter)
          ELSE IF _is_log_for_this_test(message, clean_test_name)
          THEN FilterLines(rest, clean_test_name, start_time_ms,
                           Append(steps, LogStep(step_counter + 1, message, start_time_ms)),
                           seen_messages \cup {message}, step_counter + 1)
          ELSE FilterLines(rest, clean_test_name, start_time_ms,
                           steps, seen_messages \cup {message}, step_counter)

(* test_name.split(" (Attempts:")[0].strip() *)
CleanTestName(test_name) == Strip(Split(test_name, " (Attempts:", -1)[1])

(* The try block of _get_logger_steps (allure_helper.py:276-335): the steps it
   computes, or the exception that leaves it. *)
LoggerStepsTry(log_file, test_name, start_time_ms, end_time_ms) ==
    LET r == ReadWithEncodings(logFile, encodings)
        steps == FilterLines(r.lines, CleanTestName(test_name), start_time_ms,
                             <<>>, {}, 0)
    IN  IF r.exc # None THEN [exc |-> r.exc, steps |-> <<>>]
        ELSE IF r.lines = <<>>
        THEN [exc |-> None,
              steps |-> _get_basic_steps(test_name, start_time_ms, end_time_ms)]
        ELSE IF steps = <<>>
        THEN [exc |-> None,
              steps |-> _get_basic_steps(test_name, start_time_ms, end_time_ms)]
        ELSE [exc |-> None, steps |-> steps]

(* The exception classes that derive from Exception, which `except Exception`
   (allure_helper.py:337) catches. *)
ExceptionClasses == {"PermissionError", "OSError", "UnicodeDecodeError", "ValueError"}

(* A slip: `except UnicodeDecodeError` in place of `except Exception`. *)
CaughtOnlyDecodeErrors(exc) == exc = "UnicodeDecodeError"

CaughtByLoggerSteps(exc) == exc \in ExceptionClasses

(* _get_logger_steps: [raised, steps]; raised is None when the call returns. *)
_get_logger_steps(log_file, test_name, start_time_ms, end_time_ms) ==
    IF log_file \in {None, ""} \/ ~PathExists(log_file)
    THEN [raised |-> None,
          steps |-> _get_basic_steps(test_name, start_time_ms, end_time_ms)]
    ELSE LET t == LoggerStepsTry(log_file, test_name, start_time_ms, end_time_ms)
         IN  IF t.exc = None THEN [raised |-> None, steps |-> t.steps]
             ELSE IF CaughtByLoggerSteps(t.exc)
             THEN [raised |-> None,
                   steps |-> _get_basic_steps(test_name, start_time_ms, end_time_ms)]
             ELSE [raised |-> t.exc, steps |-> <<>>]

(***************************************************************************)
(* Time                                                                    *)
(***************************************************************************)
(* Clock ticks per millisecond: time.time() is a float with sub-millisecond
   digits, which int(t * 1000) drops. *)
TicksPerMs == 2

TicksPerSecond == 1000 * TicksPerMs

TicksPerMinute == 60 * TicksPerSecond

(* int(t * 1000) for a time t >= 0 given in ticks (allure_helper.py:67-68) *)
ToMillis(t) == t \div TicksPerMs

(***************************************************************************)
(* The results directory                                                   *)
(***************************************************************************)
EndsWith(s, suffix) ==
    Len(s) >= Len(suffix) /\ SubSeq(s, Len(s) - Len(suffix) + 1, Len(s)) = suffix

Uuid(n) == "uuid" \o ToString(n)

(* A slip: every call writes the same file name. *)
ResultFileNameShared(test_uuid) == "latest-result.json"

ResultFileName(test_uuid) == test_uuid \o "-result.json"

ContainerFileName(container_uuid) == container_uuid \o "-container.json"

File(mtime, data) == [isfile |-> TRUE, mtime |-> mtime, data |-> data]

Subdir(mtime) == [isfile |-> FALSE, mtime |-> mtime, data |-> <<>>]

(* open(path, 'w') / shutil.copy2 into the directory: creates or replaces. *)
WriteEntry(dir, name, file) ==
    [n \in (DOMAIN dir) \cup {name} |-> IF n = name THEN file ELSE dir[n]]

RemoveEntries(dir, names) == [n \in (DOMAIN dir) \ names |-> dir[n]]

EmptyDir == [n \in {} |-> File(0, <<>>)]

ResultFiles == {n \in DOMAIN entries : EndsWith(n, "-result.json")}

ContainerFiles == {n \in DOMAIN entries : EndsWith(n, "-container.json")}

(***************************************************************************)
(* generate_test_result                                                    *)
(***************************************************************************)
_detect_test_class(test_name) ==
    IF Contains(Lower(test_name), "apollo") THEN "TestApollo"
    ELSE IF Contains(Lower(test_name), "ui") \/ Contains(Lower(test_name), "browser")
    THEN "UITest"
    ELSE IF Contains(Lower(test_name), "api") THEN "APITest"
    ELSE "TestSuite"

_detect_package(test_name) ==
    IF Contains(Lower(test_name), "apollo") THEN "tests.api.test_apollo"
    ELSE IF Contains(Lower(test_name), "ui") \/ Contains(Lower(test_name), "browser")
    THEN "tests.ui"
    ELSE IF Contains(Lower(test_name), "api") THEN "tests.api"
    ELSE "tests"

(* A slip: 'ui' and 'browser' looked for before 'apollo'. *)
_detect_suite_name_ui_first(test_name) ==
    IF Contains(Lower(test_name), "ui") \/ Contains(Lower(test_name), "browser")
    THEN "UI Tests"
    ELSE IF Contains(Lower(test_name), "apollo") THEN "Apollo API Tests"
    ELSE IF Contains(Lower(test_name), "api") THEN "API Tests"
    ELSE "Test Suite"

_detect_suite_name(test_name) ==
    IF Contains(Lower(test_name), "apollo") THEN "Apollo API Tests"
    ELSE IF Contains(Lower(test_name), "ui") \/ Contains(Lower(test_name), "browser")
    THEN "UI Tests"
    ELSE IF Contains(Lower(test_name), "api") THEN "API Tests"
    ELSE "Test Suite"

(* `not x` for an optional string argument *)
Falsy(x) == x \in {None, ""}

(* A slip: the comparison off by one, so the last attempt is 'failed' too. *)
RetryStatusOffByOne(i, retry_count, status) ==
    IF i < retry_count THEN "failed" ELSE Lower(status)

(* The status of attempt i (0-based) of retry_count (allure_helper.py:127). *)
RetryStatus(i, retry_count, status) ==
    IF i < retry_count - 1 THEN "failed" ELSE Lower(status)

(* One entry of the retry history (allure_helper.py:123-143); uuid0 is the
   number of uuids drawn before the loop. *)
RetryEntry(i, retry_count, test_name, status, start_time_ms, uuid0) ==
    [uuid |-> Uuid(uuid0 + i + 1),
     name |-> test_name \o " (Attempt " \o ToString(i + 1) \o ")",
     status |-> RetryStatus(i, retry_count, status),
     stage |-> "finished",
     start |-> start_time_ms + (i * 1000),
     stop |-> start_time_ms + ((i + 1) * 1000),
     steps |-> << Step("Retry Attempt " \o ToString(i + 1),
                       RetryStatus(i, retry_count, status),
                       start_time_ms + (i * 1000),
                       start_time_ms + ((i + 1) * 1000)) >>,
     attachments |-> <<>>]

(* for i in range(retry_count) (allure_helper.py:122) *)
RetryEntries(retry_count, test_name, status, start_time_ms, uuid0) ==
    [k \in 1..retry_count |->
        RetryEntry(k - 1, retry_count, test_name, status, start_time_ms, uuid0)]

(* Whether the document gets a 'retries' field (allure_helper.py:120). *)
HasRetries(retry_count) == retry_count > 0

(* statusDetails (allure_helper.py:92, 148-152); {} is the record with no field. *)
NoDetails == [x \in {} |-> ""]

StatusDetails(error_message) ==
    IF Falsy(error_message) THEN NoDetails
    ELSE [message |-> error_message, trace |-> error_message]

Labels(test_name, test_class, package, suite) ==
    << [name |-> "testClass", value |-> test_class],
       [name |-> "testMethod", value |-> test_name],
       [name |-> "package", value |-> package],
       [name |-> "suite", value |-> suite] >>

(* The result dictionary (allure_helper.py:88-152). *)
ResultDocument(test_uuid, test_name, status, start_time_ms, end_time_ms, steps, all_attachments, test_class, package, suite, error_message, retry_count, uuid0) ==
    LET base == [uuid |-> test_uuid,
                 name |-> test_name,
                 status |-> Lower(status),
                 statusDetails |-> StatusDetails(error_message),
                 stage |-> "finished",
                 start |-> start_time_ms,
                 stop |-> end_time_ms,
                 steps |-> steps,
                 attachments |-> all_attachments,
                 parameters |-> <<>>,
                 labels |-> Labels(test_name, test_class, package, suite)]
    IN  IF HasRetries(retry_count)
        THEN [k \in (DOMAIN base) \cup {"retries"} |->
                IF k = "retries"
                THEN RetryEntries(retry_count, test_name, status, start_time_ms, uuid0)
                ELSE base[k]]
        ELSE base

(***************************************************************************)
(* JSON: json.dump writes a Python value as a JSON value, by its Python     *)
(* type (str -> string, int -> number, list -> array, dict -> object), and  *)
(* json.load reads a JSON value back as a Python value.                     *)
(***************************************************************************)
JString(s) == [t |-> "string", v |-> s]

JNumber(n) == [t |-> "number", v |-> n]

JArray(q) == [t |-> "array", v |-> q]

JObject(f) == [t |-> "object", v |-> f]

(* A dictionary whose values are all str. *)
JsonOfStrDict(d) == JObject([k \in DOMAIN d |-> JString(d[k])])

(* A list of such dictionaries ('labels', 'attachments'). *)
JsonOfStrDicts(q) == JArray([i \in DOMAIN q |-> JsonOfStrDict(q[i])])

(* A step dictionary (allure_helper.py:220-228, 320-328, 132-140); its own
   'steps' and 'attachments' are empty lists. *)
JsonOfStep(step) ==
    JObject([name |-> JString(step.name), status |-> JString(step.status),
             stage |-> JString(step.stage), start |-> JNumber(step.start),
             stop |-> JNumber(step.stop), steps |-> JArray(<<>>),
             attachments |-> JArray(<<>>)])

(* A list of steps. *)
JsonOfSteps(q) == JArray([i \in DOMAIN q |-> JsonOfStep(q[i])])

(* One entry of 'retries' (allure_helper.py:124-143). *)
JsonOfRetryEntry(e) ==
    JObject([uuid |-> JString(e.uuid), name |-> JString(e.name),
             status |-> JString(e.status), stage |-> JString(e.stage),
             start |-> JNumber(e.start), stop |-> JNumber(e.stop),
             steps |-> JsonOfSteps(e.steps),
             attachments |-> JArray(<<>>)])

(* The 'retries' list. *)
JsonOfRetries(q) == JArray([i \in DOMAIN q |-> JsonOfRetryEntry(q[i])])

(* A slip: the document dumped without its 'labels'. *)
JsonOfResultNoLabels(d) ==
    JObject([k \in (DOMAIN d) \ {"labels"} |->
        CASE k \in {"uuid", "name", "status", "stage"} -> JString(d[k])
          [] k \in {"start", "stop"} -> JNumber(d[k])
          [] k = "statusDetails" -> JsonOfStrDict(d[k])
          [] k = "steps" -> JsonOfSteps(d[k])
          [] k = "attachments" -> JsonOfStrDicts(d[k])
          [] k = "parameters" -> JArray(<<>>)
          [] k = "retries" -> JsonOfRetries(d[k])])

(* json.dump(result, f, indent=2) (allure_helper.py:157): the JSON value in
   the file, each field written by the Python type lines 88-146 give it. *)
JsonOfResult(d) ==
    JObject([k \in DOMAIN d |->
        CASE k \in {"uuid", "name", "status", "stage"} -> JString(d[k])
          [] k \in {"start", "stop"} -> JNumber(d[k])
          [] k = "statusDetails" -> JsonOfStrDict(d[k])
          [] k = "steps" -> JsonOfSteps(d[k])
          [] k = "attachments" -> JsonOfStrDicts(d[k])
          [] k = "parameters" -> JArray(<<>>)
          [] k = "labels" -> JsonOfStrDicts(d[k])
          [] k = "retries" -> JsonOfRetries(d[k])])

(* json.load: the Python value a JSON value is read as, with its type. *)
RECURSIVE JsonLoad(_)
JsonLoad(j) ==
    CASE j.t = "string" -> [type |-> "str", value |-> j.v]
      [] j.t = "number" -> [type |-> "int", value |-> j.v]
      [] j.t = "array" ->
            [type |-> "list", value |-> [i \in DOMAIN j.v |-> JsonLoad(j.v[i])]]
      [] j.t = "object" ->
            [type |-> "dict", value |-> [k \in DOMAIN j.v |-> JsonLoad(j.v[k])]]

(* The name the log is copied under (allure_helper.py:84). *)
LogAttachmentName(test_name) == ReplaceChar(test_name, " ", "_") \o "_log.txt"

(* _create_log_attachment (allure_helper.py:417-438): the attachment record, or
   None when there is no log or the copy fails; the copy itself is `copied`. *)
_create_log_attachment(log_file, attachment_name) ==
    IF Falsy(log_file) \/ ~PathExists(log_file)
    THEN [ret |-> None, copied |-> FALSE]
    ELSE IF ~dirExists \/ ~logFile.readable
    THEN [ret |-> None, copied |-> FALSE]
    ELSE [ret |-> [name |-> "Test Log", type |-> "text/plain", source |-> attachment_name],
          copied |-> TRUE]

(* An omitted start_time / end_time argument (None). *)
NoTime == -1

(* The state generate_test_result leaves, as [raised, uuids, dir, ret]: the
   exception that leaves it (None when it returns), the uuids drawn, the
   results directory after it, and the uuid returned. *)
GenerateOutcome(test_name, status, start_time, end_time, error_message, attachments, test_class, package, suite, log_file, retry_count) ==
    LET start == IF start_time = NoTime THEN now ELSE start_time
        end == IF end_time = NoTime THEN now ELSE end_time
        test_uuid == Uuid(nextUuid + 1)
        start_time_ms == ToMillis(start)
        end_time_ms == ToMillis(end)
        cls == IF Falsy(test_class) THEN _detect_test_class(test_name) ELSE test_class
        pkg == IF Falsy(package) THEN _detect_package(test_name) ELSE package
        ste == IF Falsy(suite) THEN _detect_suite_name(test_name) ELSE suite
        ls == _get_logger_steps(log_file, test_name, start_time_ms, end_time_ms)
        attachment_name == LogAttachmentName(test_name)
        att == IF ~Falsy(log_file) /\ PathExists(log_file)
               THEN _create_log_attachment(log_file, attachment_name)
               ELSE [ret |-> None, copied |-> FALSE]
        all_attachments == IF att.copied THEN Append(attachments, att.ret)
                           ELSE attachments
        afterCopy == IF att.copied
                     THEN WriteEntry(entries, attachment_name,
                                     File(logFile.mtime, logFile.text))
                     ELSE entries
        drawn == 1 + (IF HasRetries(retry_count) THEN retry_count ELSE 0)
        result == ResultDocument(test_uuid, test_name, status, start_time_ms,
                                 end_time_ms, ls.steps, all_attachments, cls, pkg, ste,
                                 error_message, retry_count, nextUuid + 1)
    IN  IF ls.raised # None
        THEN [raised |-> ls.raised, uuids |-> 1, dir |-> entries, ret |-> None]
        ELSE IF ~dirExists
        THEN [raised |-> "FileNotFoundError", uuids |-> drawn, dir |-> afterCopy,
              ret |-> None]
        ELSE [raised |-> None, uuids |-> drawn,
              dir |-> WriteEntry(afterCopy, ResultFileName(test_uuid), File(now, result)),
              ret |-> test_uuid]

(* AllureHelper.generate_test_result *)
GenerateTestResult(test_name, status, start_time, end_time, error_message, attachments, test_class, package, suite, log_file, retry_count) ==
    \E o \in {GenerateOutcome(test_name, status, start_time, end_time, error_message,
                             attachments, test_class, package, suite, log_file,
                             retry_count)} :
        /\ entries' = o.dir
        /\ nextUuid' = nextUuid + o.uuids
        /\ callsSinceClean' = IF o.raised = None THEN callsSinceClean + 1
                              ELSE callsSinceClean
        /\ last' = [op |-> "generate_test_result", raised |-> o.raised, ret |-> o.ret,
                    test_name |-> test_name, status |-> status,
                    log_file |-> log_file, retry_count |-> retry_count]
        /\ UNCHANGED <<now, dirExists, logFile>>

(* AllureHelper.generate_container *)
GenerateContainer(test_uuid, test_name) ==
    LET container_uuid == Uuid(nextUuid + 1)
        container == [uuid |-> container_uuid, name |-> test_name,
                      children |-> <<test_uuid>>, befores |-> <<>>, afters |-> <<>>]
    IN  /\ nextUuid' = nextUuid + 1
        /\ IF dirExists
           THEN /\ entries' = WriteEntry(entries, ContainerFileName(container_uuid),
                                         File(now, container))
                /\ last' = [op |-> "generate_container", raised |-> None,
                            ret |-> container_uuid]
           ELSE /\ entries' = entries
                /\ last' = [op |-> "generate_container",
                            raised |-> "FileNotFoundError", ret |-> None]
        /\ UNCHANGED <<now, dirExists, logFile, callsSinceClean, run>>

(***************************************************************************)
(* fix_allure_results (generate_allure_html.py)                            *)
(***************************************************************************)
(* json.load of a result file: the file holds what json.dump wrote. *)
ReadResultFile(n) == JsonLoad(JsonOfResult(entries[n].data))

(* container_uuid (generate_allure_html.py:43) *)
FixContainerUuid(result_data) ==
    Replace(result_data.value.uuid.value, "-result", "-container")

(* A slip: the container written over the result file it was read from. *)
FixContainerFileOverResult(container_uuid) == container_uuid \o "-result.json"

(* container_file (generate_allure_html.py:52) *)
FixContainerFile(container_uuid) == container_uuid \o ".json"

(* container_data (generate_allure_html.py:44-50) *)
FixContainerData(result_data) ==
    [uuid |-> FixContainerUuid(result_data),
     name |-> IF "name" \in DOMAIN result_data.value
              THEN result_data.value.name.value ELSE "Test",
     children |-> <<result_data.value.uuid.value>>,
     befores |-> <<>>, afters |-> <<>>]

(* The container files the loop writes, by name. *)
FixContainers ==
    [f \in {FixContainerFile(FixContainerUuid(ReadResultFile(n))) : n \in ResultFiles} |->
        LET n == CHOOSE n \in ResultFiles :
                    FixContainerFile(FixContainerUuid(ReadResultFile(n))) = f
        IN  File(now, FixContainerData(ReadResultFile(n)))]

(* fix_allure_results: False, and nothing done, without a directory or
   without result files; else one container written per result file. *)
FixAllureResults ==
    /\ IF ~dirExists \/ ResultFiles = {}
       THEN /\ UNCHANGED entries
            /\ last' = [op |-> "fix_allure_results", raised |-> None, ret |-> FALSE,
                        containers_created |-> 0]
       ELSE /\ entries' = [f \in (DOMAIN entries) \cup (DOMAIN FixContainers) |->
                              IF f \in DOMAIN FixContainers THEN FixContainers[f]
                              ELSE entries[f]]
            /\ last' = [op |-> "fix_allure_results", raised |-> None, ret |-> TRUE,
                        containers_created |-> Cardinality(ResultFiles)]
    /\ UNCHANGED <<now, dirExists, nextUuid, logFile, callsSinceClean>>

(* A slip: the directory is recreated only where it was removed. *)
CleanedDirectoryNoRecreate(exists, dir) ==
    IF exists THEN [exists |-> TRUE, dir |-> EmptyDir]
    ELSE [exists |-> FALSE, dir |-> dir]

(* What clean_results makes of the directory: rmtree if it exists, then
   makedirs(exist_ok=True) (allure_helper.py:22-27). *)
CleanedDirectory(exists, dir) ==
    LET afterRmtree == IF exists THEN [exists |-> FALSE, dir |-> EmptyDir]
                       ELSE [exists |-> exists, dir |-> dir]
    IN  [exists |-> TRUE, dir |-> afterRmtree.dir]

(* How a call finds the results directory. *)
DirectoryState == IF ~dirExists THEN "absent"
                  ELSE IF DOMAIN entries = {} THEN "empty" ELSE "holding"

(* AllureHelper.clean_results; last.streak counts the calls in a row (up to 2)
   and last.found is how the first call of the row found the directory. *)
CleanResults ==
    LET c == CleanedDirectory(dirExists, entries)
        again == last.op = "clean_results"
    IN  /\ dirExists' = c.exists
        /\ entries' = c.dir
        /\ callsSinceClean' = 0
        /\ last' = [op |-> "clean_results", raised |-> None,
                    streak |-> IF again THEN 2 ELSE 1,
                    found |-> IF again THEN last.found ELSE DirectoryState]
        /\ UNCHANGED <<now, nextUuid, logFile>>

(* A slip: the threshold taken as seconds (the factor 60 forgotten). *)
CutoffTimeSeconds(older_than_minutes) == now - (older_than_minutes * TicksPerSecond)

(* cutoff_time = current_time - older_than_minutes * 60, in ticks *)
CutoffTime(older_than_minutes) == now - (older_than_minutes * TicksPerMinute)

(* The files clean_old_results removes (allure_helper.py:39-45). *)
OldFiles(older_than_minutes) ==
    {n \in DOMAIN entries :
        entries[n].isfile /\ entries[n].mtime < CutoffTime(older_than_minutes)}

(* AllureHelper.clean_old_results; last.cleaned_count is the code's counter. *)
CleanOldResults(older_than_minutes) ==
    /\ IF ~dirExists
       THEN /\ UNCHANGED <<entries, callsSinceClean>>
            /\ last' = [op |-> "clean_old_results", raised |-> None,
                        older_than_minutes |-> older_than_minutes,
                        cleaned_count |-> 0]
       ELSE /\ entries' = RemoveEntries(entries, OldFiles(older_than_minutes))
            /\ callsSinceClean' = callsSinceClean
                  - Cardinality(OldFiles(older_than_minutes) \cap ResultFiles)
            /\ last' = [op |-> "clean_old_results", raised |-> None,
                        older_than_minutes |-> older_than_minutes,
                        cleaned_count |-> Cardinality(OldFiles(older_than_minutes))]
    /\ UNCHANGED <<now, dirExists, nextUuid, logFile, run>>

(***************************************************************************)
(* The environment of the helper                                           *)
(***************************************************************************)
(* The instants the clock is read at. *)
Instants == {0, TicksPerMinute, TicksPerMinute + 1}

(* Time passes. *)
Tick == /\ \E t \in Instants : t > now /\ now' = t
        /\ last' = [op |-> "time", raised |-> None]
        /\ UNCHANGED <<dirExists, entries, nextUuid, logFile, callsSinceClean, run>>

(* A readable file holding the same lines under every encoding (ASCII). *)
AsciiFile(lines, mtime) ==
    [readable |-> TRUE, text |-> [e \in Range(encodings) |-> lines], mtime |-> mtime]

(* The framework's logger appends one line to the shared log. *)
LoggerAppend(line) ==
    /\ IF logFile = NoFile
       THEN logFile' = AsciiFile(<<line>>, now)
       ELSE /\ Len(logFile.text["latin-1"]) < MaxLogLines
            /\ logFile' = [logFile EXCEPT
                  !.text = [e \in Range(encodings) |->
                              IF logFile.text[e] = DecodeError THEN DecodeError
                              ELSE Append(logFile.text[e], line)],
                  !.mtime = now]
    /\ last' = [op |-> "logger", raised |-> None]
    /\ UNCHANGED <<now, dirExists, entries, nextUuid, callsSinceClean, run>>

(* Somebody else removes the results directory (rm -rf allure-results). *)
ExternalRemoveDir ==
    /\ dirExists
    /\ dirExists' = FALSE
    /\ entries' = EmptyDir
    /\ callsSinceClean' = 0
    /\ last' = [op |-> "external", raised |-> None]
    /\ UNCHANGED <<now, nextUuid, logFile, run>>

(* Somebody else creates a sub-directory in the results directory. *)
ExternalMkdir(name) ==
    /\ dirExists
    /\ name \notin DOMAIN entries
    /\ entries' = WriteEntry(entries, name, Subdir(now))
    /\ last' = [op |-> "external", raised |-> None]
    /\ UNCHANGED <<now, dirExists, nextUuid, logFile, callsSinceClean, run>>

(* No caller is under way. *)
Idle == [site |-> None, pc |-> "idle"]

(***************************************************************************)
(* The helper on its own: one process, one call after another              *)
(***************************************************************************)
vars == <<now, dirExists, entries, nextUuid, logFile, last, callsSinceClean, run>>

(* The state after AllureHelper.__init__ (allure_helper.py:16-18): the
   directory exists; a fresh checkout has nothing in it. *)
Init ==
    /\ now = 0
    /\ dirExists = TRUE
    /\ entries = EmptyDir
    /\ nextUuid = 0
    /\ logFile = NoFile
    /\ last = [op |-> "__init__", raised |-> None]
    /\ callsSinceClean = 0
    /\ run = Idle

SearchLine ==
    "2025-01-03 16:21:53,123 - automation_framework - INFO - Searching for project: XTM Test Automation team 20251010_185850"

HealthLine ==
    "2025-01-03 16:20:01,004 - automation_framework - INFO - Navigating to the health page"

TestNames == {"Search Project Relay (UI)"}

(* The (start_time, end_time) pairs the call sites pass: both omitted, or a
   start read from the clock earlier and an end read from it now. *)
Windows == {<<NoTime, NoTime>>, <<0, now>>}

CallGenerate ==
    /\ nextUuid < MaxUuids
    /\ \E test_name \in TestNames, w \in Windows, log_file \in {None, LogPath} :
          GenerateTestResult(test_name, "passed", w[1], w[2], None, <<>>,
                             None, None, None, log_file, 0)
    /\ UNCHANGED run

CallGenerateContainer ==
    /\ nextUuid < MaxUuids
    /\ \E n \in ResultFiles :
          GenerateContainer(entries[n].data.uuid, entries[n].data.name)

CallCleanResults == CleanResults /\ UNCHANGED run

(* The age thresholds passed, in minutes. *)
Ages == {0, 1}

CallCleanOldResults == \E older_than_minutes \in Ages :
                          CleanOldResults(older_than_minutes)

LoggerWrites == LoggerAppend(SearchLine)

Next ==
    \/ CallGenerate
    \/ CallGenerateContainer
    \/ CallCleanResults
    \/ CallCleanOldResults
    \/ Tick
    \/ LoggerWrites

Spec == Init /\ [][Next]_vars

(***************************************************************************)
(* The helper in a directory other programs touch too                      *)
(***************************************************************************)
OthersRemoveDir == ExternalRemoveDir

OthersMkdir == ExternalMkdir("history")

NextEnv ==
    \/ CallGenerate
    \/ CallGenerateContainer
    \/ CallCleanResults
    \/ CallCleanOldResults
    \/ Tick
    \/ OthersRemoveDir
    \/ OthersMkdir

SpecEnv == Init /\ [][NextEnv]_vars

(***************************************************************************)
(* One document: generate_test_result over the arguments its callers pass  *)
(***************************************************************************)
DocNames == {"Search Project Relay (UI)",
             "Create XTM Project (UI) (Attempts: 2/3)",
             "test_apollo_health_page"}

DocStatuses == {"passed", "FAILED", "skipped"}

DocErrors == {None, "AssertionError: health not in url"}

(* Labels omitted, or given as utils/runretry.py:46-48 gives them. *)
DocLabels == {<<None, None, None>>, <<"UITest", "tests.ui", "UI Project Creation Tests">>}

(* start/end pairs: omitted, zero-length, sub-millisecond apart, a second and
   a minute apart. *)
DocWindows == {<<NoTime, NoTime>>, <<1, 1>>, <<1, 2>>, <<0, TicksPerSecond + 1>>,
               <<1, TicksPerMinute>>}

InitDoc ==
    /\ now = TicksPerMinute
    /\ dirExists = TRUE
    /\ entries = EmptyDir
    /\ nextUuid = 0
    /\ logFile \in {NoFile, AsciiFile(<<SearchLine, HealthLine>>, 0)}
    /\ last = [op |-> "__init__", raised |-> None]
    /\ callsSinceClean = 0
    /\ run = Idle

CallGenerateDoc ==
    /\ nextUuid = 0
    /\ \E test_name \in DocNames, status \in DocStatuses, w \in DocWindows,
          error_message \in DocErrors, labels \in DocLabels,
          log_file \in {None, LogPath}, retry_count \in 0..MaxRetryCount :
          GenerateTestResult(test_name, status, w[1], w[2], error_message, <<>>,
                             labels[1], labels[2], labels[3], log_file, retry_count)
    /\ UNCHANGED run

NextDoc == CallGenerateDoc

SpecDoc == InitDoc /\ [][NextDoc]_vars

(***************************************************************************)
(* The log filter on its own: _get_logger_steps over sample logs           *)
(***************************************************************************)
(* The same message as SearchLine, logged again later. *)
SearchLineAgain ==
    "2025-01-03 16:22:10,456 - automation_framework - INFO - Searching for project: XTM Test Automation team 20251010_185850  "

ShortLine == "2025-01-03 16:21:54,001 - automation_framework - INFO - Relay ok"

ErrorLine ==
    "2025-01-03 16:21:55,650 - automation_framework - ERROR - Relay search failed: INFO banner missing"

WarningLine ==
    "2025-01-03 16:21:56,020 - automation_framework - WARNING - Relay page slow to load"

OtherLoggerLine ==
    "2025-01-03 16:21:57,311 - urllib3.connectionpool - INFO - GET /relay for automation_framework client"

XtmLine ==
    "2025-01-03 16:10:02,500 - automation_framework - INFO - Clicking Add Project button"

BadTimestampLine ==
    "yesterday - automation_framework - INFO - Opening all projects view"

UnseparatedLine == "automation_framework INFO relay started without separators"

LinePool == {SearchLine, SearchLineAgain, ShortLine, ErrorLine, WarningLine,
             OtherLoggerLine, XtmLine, BadTimestampLine, UnseparatedLine}

(* All sequences over S of length at most n. *)
RECURSIVE SeqsUpTo(_, _)
SeqsUpTo(S, n) ==
    IF n = 0 THEN {<<>>}
    ELSE LET shorter == SeqsUpTo(S, n - 1)
         IN  shorter \cup {Append(q, x) : q \in shorter, x \in S}

(* A file that chmod made unreadable: open() raises PermissionError. *)
UnreadableFile(lines, mtime) ==
    [readable |-> FALSE, text |-> [e \in Range(encodings) |-> lines], mtime |-> mtime]

(* A file with a byte that is no UTF-8 and no cp1252: only the latin-1
   family, which maps every byte, decodes it. *)
Latin1File(lines, mtime) ==
    [readable |-> TRUE,
     text |-> [e \in Range(encodings) |->
                 IF e \in {"latin-1", "iso-8859-1"} THEN lines ELSE DecodeError],
     mtime |-> mtime]

SampleLogFiles ==
    {NoFile}
      \cup {AsciiFile(lines, 0) : lines \in SeqsUpTo(LinePool, MaxFileLines)}
      \cup {UnreadableFile(<<SearchLine>>, 0), Latin1File(<<SearchLine>>, 0),
            Latin1File(<<>>, 0)}

(* Names with a known pattern, with the retry suffix, and with no pattern
   (two of them names the orchestrators use). *)
StepNames == {"Search Project Relay (UI)",
              "Search Project Relay (UI) (Attempts: 2/3)",
              "Create XTM Project (UI)",
              "Search Project (UI)",
              "test_apollo_health_page"}

InitSteps ==
    /\ now = 0
    /\ dirExists = TRUE
    /\ entries = EmptyDir
    /\ nextUuid = 0
    /\ logFile \in SampleLogFiles
    /\ last = [op |-> "__init__", raised |-> None]
    /\ callsSinceClean = 0
    /\ run = Idle

(* One call of _get_logger_steps, its arguments and its outcome recorded. *)
CallGetLoggerSteps ==
    /\ \E log_file \in {None, LogPath}, test_name \in StepNames :
          LET r == _get_logger_steps(log_file, test_name, 0, 1500)
          IN  last' = [op |-> "_get_logger_steps", raised |-> r.raised,
                       log_file |-> log_file, test_name |-> test_name,
                       steps |-> r.steps]
    /\ UNCHANGED <<now, dirExists, entries, nextUuid, logFile, callsSinceClean, run>>

NextSteps == CallGetLoggerSteps

SpecSteps == InitSteps /\ [][NextSteps]_vars

(***************************************************************************)
(* The callers of generate_test_result                                     *)
(***************************************************************************)
(* The three shapes of call site: the Allure runner's run_single_test calls
   the helper bare; runretry.run_test calls it inside try/except Exception;
   a test such as test_apollo_health_page calls it inside the try block whose
   except clause reports the failure and re-raises. *)
Sites == {"run_single_test", "run_test", "test_apollo_health_page"}

SiteTestName(site) ==
    CASE site = "run_single_test" -> "Search Project Relay (UI)"
      [] site = "run_test" -> "Create XTM Project (UI)"
      [] site = "test_apollo_health_page" -> "test_apollo_health_page"

(* The test itself runs: pytest's return code, or the test body passing or
   raising, decides the outcome; start_time is read before it. *)
SiteRunsTest(site) ==
    /\ run.pc = "idle"
    /\ nextUuid < MaxUuids
    /\ \E outcome \in {"passed", "failed"} :
          run' = [site |-> site,
                  pc |-> IF site = "test_apollo_health_page" /\ outcome = "failed"
                         THEN "except" ELSE "report",
                  start_time |-> now, outcome |-> outcome,
                  report_raised |-> FALSE, result |-> None]
    /\ last' = [op |-> "test", raised |-> None]
    /\ UNCHANGED <<now, dirExists, entries, nextUuid, logFile, callsSinceClean>>

(* run_projectcreationuiaalurereport.py:20-33: no handler around the call, so
   an exception of the helper leaves run_single_test and main. *)
RunSingleTestReports ==
    /\ run.site = "run_single_test"
    /\ run.pc = "report"
    /\ nextUuid < MaxUuids
    /\ GenerateTestResult(SiteTestName(run.site), run.outcome, run.start_time, now,
                          None, <<>>, None, None, None, LogPath, 0)
    /\ run' = IF last'.raised # None
              THEN [run EXCEPT !.pc = "aborted", !.report_raised = TRUE]
              ELSE [run EXCEPT !.pc = "done", !.result = run.outcome]

(* utils/runretry.py:38-56: try / except Exception around the call. *)
RunTestReports ==
    /\ run.site = "run_test"
    /\ run.pc = "report"
    /\ nextUuid < MaxUuids
    /\ GenerateTestResult(SiteTestName(run.site), run.outcome, run.start_time, now,
                          None, <<>>, "UITest", "tests.ui", "UI Project Creation Tests",
                          LogPath, 0)
    /\ run' = [run EXCEPT !.pc = "done", !.result = run.outcome,
                          !.report_raised = (last'.raised # None)]

(* tests/ui/test_simple_ui.py:56-62: the report of a passed body, made inside
   the try block; an exception of the helper enters the except clause. *)
TestReportsPassed ==
    /\ run.site = "test_apollo_health_page"
    /\ run.pc = "report"
    /\ nextUuid < MaxUuids
    /\ GenerateTestResult(SiteTestName(run.site), "passed", run.start_time, now,
                          None, <<>>, None, None, None, None, 0)
    /\ run' = IF last'.raised # None
              THEN [run EXCEPT !.pc = "except", !.report_raised = TRUE]
              ELSE [run EXCEPT !.pc = "done", !.result = "passed"]

(* tests/ui/test_simple_ui.py:64-73: the except clause reports 'failed' and
   re-raises (or lets the helper's own exception out): the test fails. *)
TestReportsFailed ==
    /\ run.site = "test_apollo_health_page"
    /\ run.pc = "except"
    /\ nextUuid < MaxUuids
    /\ GenerateTestResult(SiteTestName(run.site), "failed", run.start_time, now,
                          "AssertionError: health not in url", <<>>,
                          None, None, None, None, 0)
    /\ run' = [run EXCEPT !.pc = "done", !.result = "failed",
                          !.report_raised = (run.report_raised \/ last'.raised # None)]

(* The caller goes on to its next test. *)
SiteReturns ==
    /\ run.pc = "done"
    /\ run' = Idle
    /\ last' = [op |-> "return", raised |-> None]
    /\ UNCHANGED <<now, dirExists, entries, nextUuid, logFile, callsSinceClean>>

AnySiteRunsTest == \E site \in Sites : SiteRunsTest(site)

NextSites ==
    \/ AnySiteRunsTest
    \/ RunSingleTestReports
    \/ RunTestReports
    \/ TestReportsPassed
    \/ TestReportsFailed
    \/ SiteReturns
    \/ CallCleanResults
    \/ OthersRemoveDir
    \/ Tick

SpecSites == Init /\ [][NextSites]_vars

(***************************************************************************)
(* The labels: generate_test_result over names and label arguments         *)
(***************************************************************************)
(* Names with each of the substrings sniffed, alone and together, in either
   case, and with none. *)
LabelNames == {"test_apollo_health_page", "Apollo UI smoke", "APOLLO API",
               "Search Project Relay (UI)", "Browser smoke", "browser api check",
               "API token check", "smoke"}

(* A label argument: omitted, empty, or given. *)
LabelArgs(given) == {None, "", given}

CallGenerateLabels ==
    /\ nextUuid = 0
    /\ \E test_name \in LabelNames, test_class \in LabelArgs("UITest"),
          package \in LabelArgs("tests.ui"),
          suite \in LabelArgs("UI Project Creation Tests") :
          /\ GenerateTestResult(test_name, "passed", NoTime, NoTime, None, <<>>,
                                test_class, package, suite, None, 0)
          /\ run' = [site |-> None, pc |-> "idle", test_class |-> test_class,
                     package |-> package, suite |-> suite]

NextLabels == CallGenerateLabels

SpecLabels == Init /\ [][NextLabels]_vars

(***************************************************************************)
(* The same test reported again while the shared log grows                 *)
(***************************************************************************)
(* The logger is set up before the first report: its FileHandler has created
   the day's log file, still empty (utils/logger.py:41-46). *)
InitTwice ==
    /\ now = 0
    /\ dirExists = TRUE
    /\ entries = EmptyDir
    /\ nextUuid = 0
    /\ logFile = AsciiFile(<<>>, 0)
    /\ last = [op |-> "__init__", raised |-> None]
    /\ callsSinceClean = 0
    /\ run = Idle

NextTwice ==
    \/ CallGenerate
    \/ LoggerWrites
    \/ Tick

SpecTwice == InitTwice /\ [][NextTwice]_vars

(***************************************************************************)
(* The helper and the report generator on one directory                    *)
(***************************************************************************)
CallFixAllureResults == FixAllureResults /\ UNCHANGED run

NextFix ==
    \/ CallGenerate
    \/ CallGenerateContainer
    \/ CallFixAllureResults
    \/ CallCleanResults
    \/ CallCleanOldResults
    \/ Tick

SpecFix == Init /\ [][NextFix]_vars

(***************************************************************************)
(* clean_results and generate_test_result in two processes                 *)
(*                                                                         *)
(* The cleaner runs clean_results one system call at a time: the           *)
(* os.path.exists test, rmtree's unlinking of the entries it listed,       *)
(* rmtree's rmdir of the directory, and os.makedirs.  The writer's only    *)
(* access to the directory is the open(result_file, 'w') of a call without *)
(* a log file, so its call is one step.  run.returned and run.failed count *)
(* the writer's calls since clean_results was last called, and             *)
(* run.overlapped says whether one of them ran while it was under way.     *)
(***************************************************************************)
InitRace ==
    /\ now = 0
    /\ dirExists = TRUE
    /\ entries = EmptyDir
    /\ nextUuid = 0
    /\ logFile = NoFile
    /\ last = [op |-> "__init__", raised |-> None]
    /\ callsSinceClean = 0
    /\ run = [site |-> "clean_results", pc |-> "idle", returned |-> 0, failed |-> 0,
              overlapped |-> FALSE]

(* A slip: the directory left as rmtree left it. *)
MakedirsForgotten(exists) == exists

(* os.makedirs(self.results_dir, exist_ok=True) (allure_helper.py:27): the
   directory exists afterwards, whether it did before or not. *)
Makedirs(exists) == TRUE

(* clean_results is called and tests os.path.exists (allure_helper.py:22). *)
CleanerTestsExists ==
    /\ run.pc = "idle"
    /\ run' = [run EXCEPT !.pc = IF dirExists THEN "rmtree" ELSE "makedirs",
                          !.returned = 0, !.failed = 0, !.overlapped = FALSE]
    /\ last' = [op |-> "clean_results", raised |-> None, at |-> "exists"]
    /\ UNCHANGED <<now, dirExists, entries, nextUuid, logFile, callsSinceClean>>

(* shutil.rmtree lists the directory and unlinks what it listed
   (allure_helper.py:23). *)
CleanerUnlinks ==
    /\ run.pc = "rmtree"
    /\ entries' = EmptyDir
    /\ callsSinceClean' = 0
    /\ run' = [run EXCEPT !.pc = "rmdir"]
    /\ last' = [op |-> "clean_results", raised |-> None, at |-> "unlink"]
    /\ UNCHANGED <<now, dirExists, nextUuid, logFile>>

(* shutil.rmtree removes the directory itself; os.rmdir raises OSError
   (ENOTEMPTY) when a file has appeared in it since, and clean_results ends
   with that exception (allure_helper.py:23). *)
CleanerRmdir ==
    /\ run.pc = "rmdir"
    /\ IF DOMAIN entries = {}
       THEN /\ dirExists' = FALSE
            /\ run' = [run EXCEPT !.pc = "makedirs"]
            /\ last' = [op |-> "clean_results", raised |-> None, at |-> "rmdir"]
       ELSE /\ dirExists' = dirExists
            /\ run' = [run EXCEPT !.pc = "idle"]
            /\ last' = [op |-> "clean_results", raised |-> "OSError", at |-> "rmdir"]
    /\ UNCHANGED <<now, entries, nextUuid, logFile, callsSinceClean>>

(* os.makedirs, and clean_results returns (allure_helper.py:27-28). *)
CleanerMakedirs ==
    /\ run.pc = "makedirs"
    /\ dirExists' = Makedirs(dirExists)
    /\ run' = [run EXCEPT !.pc = "idle"]
    /\ last' = [op |-> "clean_results", raised |-> None, at |-> "return"]
    /\ UNCHANGED <<now, entries, nextUuid, logFile, callsSinceClean>>

(* The other process reports a test. *)
WriterGenerates ==
    /\ nextUuid < MaxUuids
    /\ \E test_name \in TestNames, w \in Windows :
          GenerateTestResult(test_name, "passed", w[1], w[2], None, <<>>,
                             None, None, None, None, 0)
    /\ run' = [run EXCEPT
                  !.returned = IF last'.raised = None THEN @ + 1 ELSE @,
                  !.failed = IF last'.raised = None THEN @ ELSE @ + 1,
                  !.overlapped = @ \/ run.pc # "idle"]

NextRace ==
    \/ CleanerTestsExists
    \/ CleanerUnlinks
    \/ CleanerRmdir
    \/ CleanerMakedirs
    \/ WriterGenerates
    \/ Tick

SpecRace == InitRace /\ [][NextRace]_vars

(***************************************************************************)
(* run_test_with_retry of the Allure runner, one statement at a time       *)
(* (run_projectcreationuiaalurereport.py:35-77)                            *)
(*                                                                         *)
(* run.trace is what the call has done so far: its attempts, each with the *)
(* return code of pytest and the instants it began and ended at, and its   *)
(* sleeps.                                                                 *)
(***************************************************************************)
(* The values of max_retries and delay_seconds (seconds) passed. *)
MaxRetriesArgs == 0..MaxRetryCount

DelayArgs == {30, 180}

(* How long one pytest subprocess takes, in ticks. *)
Durations == {1, TicksPerSecond}

RetryTestNames == {"Create XTM Project (UI)"}

Attempt(returncode, began, ended) ==
    [kind |-> "attempt", returncode |-> returncode, began |-> began, ended |-> ended]

Sleep(began, ended) ==
    [kind |-> "sleep", returncode |-> None, began |-> began, ended |-> ended]

(* A slip: the wait made after every failed attempt, the last one too. *)
SleepsAfterFailureAlways(attempt, max_retries) == TRUE

(* `if attempt < max_retries` after a failed attempt
   (run_projectcreationuiaalurereport.py:53). *)
SleepsAfterFailure(attempt, max_retries) == attempt < max_retries

(* allure_test_name (run_projectcreationuiaalurereport.py:61-63) *)
AllureTestName(test_name, attempt_count, max_retries) ==
    IF attempt_count > 1
    THEN test_name \o " (Attempts: " \o ToString(attempt_count) \o "/"
            \o ToString(max_retries) \o ")"
    ELSE test_name

(* A slip: the number of attempts passed on also when there was only one. *)
RetryCountArgAlways(attempt_count) == attempt_count

(* retry_count=attempt_count if attempt_count > 1 else 0
   (run_projectcreationuiaalurereport.py:71) *)
RetryCountArg(attempt_count) == IF attempt_count > 1 THEN attempt_count ELSE 0

(* The call begins (run_projectcreationuiaalurereport.py:37-41); with an
   empty range the loop body never runs and `result` at line 58 is unbound. *)
RetryCalled ==
    /\ run.pc = "idle"
    /\ nextUuid = 0
    /\ \E test_name \in RetryTestNames, max_retries \in MaxRetriesArgs,
          delay_seconds \in DelayArgs :
          run' = [site |-> "run_test_with_retry",
                  pc |-> IF max_retries >= 1 THEN "attempt" ELSE "raised",
                  test_name |-> test_name, max_retries |-> max_retries,
                  delay_seconds |-> delay_seconds, overall_start_time |-> now,
                  attempt |-> 1, attempt_count |-> 0, returncode |-> None,
                  trace |-> <<>>, ret |-> None,
                  raised |-> IF max_retries >= 1 THEN None ELSE "UnboundLocalError"]
    /\ last' = [op |-> "run_test_with_retry", raised |-> None]
    /\ UNCHANGED <<now, dirExists, entries, nextUuid, logFile, callsSinceClean>>

(* One pass of the loop body up to the wait: subprocess.run, which returns
   when pytest has ended (run_projectcreationuiaalurereport.py:42-53). *)
RetryAttempts ==
    /\ run.site = "run_test_with_retry"
    /\ run.pc = "attempt"
    /\ \E returncode \in {0, 1}, d \in Durations :
          /\ now' = now + d
          /\ run' = [run EXCEPT
                !.attempt_count = run.attempt,
                !.returncode = returncode,
                !.trace = Append(@, Attempt(returncode, now, now + d)),
                !.pc = IF returncode = 0 THEN "report"
                       ELSE IF SleepsAfterFailure(run.attempt, run.max_retries)
                       THEN "sleep"
                       ELSE IF run.attempt < run.max_retries THEN "attempt"
                       ELSE "report",
                !.attempt = IF returncode # 0
                               /\ ~SleepsAfterFailure(run.attempt, run.max_retries)
                               /\ run.attempt < run.max_retries
                            THEN @ + 1 ELSE @]
    /\ last' = [op |-> "subprocess.run", raised |-> None]
    /\ UNCHANGED <<dirExists, entries, nextUuid, logFile, callsSinceClean>>

(* time.sleep(delay_seconds), then the next pass or, the range exhausted, the
   end of the loop (run_projectcreationuiaalurereport.py:54-55). *)
RetrySleeps ==
    /\ run.site = "run_test_with_retry"
    /\ run.pc = "sleep"
    /\ now' = now + (run.delay_seconds * TicksPerSecond)
    /\ run' = [run EXCEPT
          !.trace = Append(@, Sleep(now, now + (run.delay_seconds * TicksPerSecond))),
          !.pc = IF run.attempt < run.max_retries THEN "attempt" ELSE "report",
          !.attempt = IF run.attempt < run.max_retries THEN @ + 1 ELSE @]
    /\ last' = [op |-> "time.sleep", raised |-> None]
    /\ UNCHANGED <<dirExists, entries, nextUuid, logFile, callsSinceClean>>

(* The single report of the call and its return
   (run_projectcreationuiaalurereport.py:57-77). *)
RetryReports ==
    /\ run.site = "run_test_with_retry"
    /\ run.pc = "report"
    /\ GenerateTestResult(
          AllureTestName(run.test_name, run.attempt_count, run.max_retries),
          IF run.returncode = 0 THEN "passed" ELSE "failed",
          run.overall_start_time, now, None, <<>>, None, None, None, LogPath,
          RetryCountArg(run.attempt_count))
    /\ run' = IF last'.raised # None
              THEN [run EXCEPT !.pc = "raised", !.raised = last'.raised]
              ELSE [run EXCEPT !.pc = "returned", !.ret = run.returncode]

NextRetry ==
    \/ RetryCalled
    \/ RetryAttempts
    \/ RetrySleeps
    \/ RetryReports

SpecRetry == Init /\ [][NextRetry]_vars

(***************************************************************************)
(* The UI workflow orchestrator                                            *)
(* (run_projectcreationuiaalurereport.py:79-177)                           *)
(*                                                                         *)
(* main runs seven tests in order, each through run_test_with_retry.       *)
(* run.results holds the return codes of the tests run so far, in order.   *)
(***************************************************************************)
(* The calls of run_test_with_retry in main, in order, each with the
   time.sleep (seconds) that main makes before it. *)
MainTests ==
    << [name |-> "Create XTM Project (UI)", max_retries |-> 3,
        delay_seconds |-> 30, wait_before |-> 0],
       [name |-> "Create Scheduler Job (UI)", max_retries |-> 3,
        delay_seconds |-> 30, wait_before |-> 0],
       [name |-> "Search Project (UI)", max_retries |-> 3,
        delay_seconds |-> 30, wait_before |-> 0],
       [name |-> "Verify Pulled Project Production Status (UI)", max_retries |-> 3,
        delay_seconds |-> 180, wait_before |-> 180],
       [name |-> "AI Task Verification (UI)", max_retries |-> 3,
        delay_seconds |-> 600, wait_before |-> 600],
       [name |-> "Project Search and Segment Navigation (UI)", max_retries |-> 3,
        delay_seconds |-> 30, wait_before |-> 60],
       [name |-> "Verify MT Copy Edit Count with Quote MT (UI)", max_retries |-> 3,
        delay_seconds |-> 30, wait_before |-> 0] >>

(* skipped_tests (run_projectcreationuiaalurereport.py:120-124) *)
SkippedTests ==
    << "AI Task Verification (UI)",
       "Project Search and Segment Navigation (UI)",
       "Verify MT Copy Edit Count with Quote MT (UI)" >>

(* The test whose failure ends the workflow. *)
GatingTest == 4

(* A slip: any failed test ends the workflow. *)
SkipsRestOnAnyFailure(test, returncode) == returncode # 0

(* `if result4 != 0` (run_projectcreationuiaalurereport.py:115): only the
   result of test 4 is looked at. *)
SkipsRest(test, returncode) == test = GatingTest /\ returncode # 0

(* What main returns: 1 at the end of the branch that skips the rest, 0 at
   the end of the workflow (run_projectcreationuiaalurereport.py:141, 177). *)
MainReturnCode(skipped) == IF skipped > 0 THEN 1 ELSE 0

(* How the loop of run_test_with_retry can end, as <<attempt_count,
   returncode>>: passed at once, passed at the second attempt, or failed at
   every attempt. *)
LoopOutcomes(max_retries) == {<<1, 0>>, <<2, 0>>, <<max_retries, 1>>}

InitMain ==
    /\ now = 0
    /\ dirExists = TRUE
    /\ entries = EmptyDir
    /\ nextUuid = 0
    /\ logFile = NoFile
    /\ last = [op |-> "__init__", raised |-> None]
    /\ callsSinceClean = 0
    /\ run = [site |-> "main", pc |-> "clean", test |-> 1, attempt_count |-> 0,
              returncode |-> None, start_time |-> 0, results |-> <<>>,
              skipped |-> 0, report |-> None, ret |-> None]

(* allure_helper.clean_results() (run_projectcreationuiaalurereport.py:86) *)
MainCleans ==
    /\ run.site = "main"
    /\ run.pc = "clean"
    /\ CleanResults
    /\ run' = [run EXCEPT !.pc = "test"]

(* The wait main makes before the test, and the loop of run_test_with_retry
   up to its end: attempt_count attempts of which only the last can have
   succeeded, with delay_seconds between them. *)
MainTestAttempts ==
    /\ run.site = "main"
    /\ run.pc = "test"
    /\ LET t == MainTests[run.test]
       IN  \E o \in LoopOutcomes(t.max_retries) :
           LET attempt_count == o[1]
               returncode == o[2]
           IN
              /\ now' = now + (t.wait_before * TicksPerSecond)
                            + (attempt_count * TicksPerSecond)
                            + ((attempt_count - 1) * t.delay_seconds * TicksPerSecond)
              /\ run' = [run EXCEPT !.pc = "report",
                                    !.attempt_count = attempt_count,
                                    !.returncode = returncode,
                                    !.start_time = now + (t.wait_before * TicksPerSecond)]
    /\ last' = [op |-> "subprocess.run", raised |-> None]
    /\ UNCHANGED <<dirExists, entries, nextUuid, logFile, callsSinceClean>>

(* The report and return of run_test_with_retry, and main's step to what it
   does next. *)
MainTestReports ==
    /\ run.site = "main"
    /\ run.pc = "report"
    /\ LET t == MainTests[run.test]
       IN  GenerateTestResult(
              AllureTestName(t.name, run.attempt_count, t.max_retries),
              IF run.returncode = 0 THEN "passed" ELSE "failed",
              run.start_time, now, None, <<>>, None, None, None, LogPath,
              RetryCountArg(run.attempt_count))
    /\ run' = IF last'.raised # None
              THEN [run EXCEPT !.pc = "raised"]
              ELSE [run EXCEPT
                       !.results = Append(@, run.returncode),
                       !.pc = IF SkipsRest(run.test, run.returncode) THEN "skip"
                              ELSE IF run.test < Len(MainTests) THEN "test"
                              ELSE "generate_html",
                       !.test = IF ~SkipsRest(run.test, run.returncode)
                                   /\ run.test < Len(MainTests)
                                THEN @ + 1 ELSE @]

(* One pass of the loop over skipped_tests
   (run_projectcreationuiaalurereport.py:126-132). *)
MainSkips ==
    /\ run.site = "main"
    /\ run.pc = "skip"
    /\ GenerateTestResult(SkippedTests[run.skipped + 1], "skipped", NoTime, NoTime,
                          None, <<>>, None, None, None, LogPath, 0)
    /\ run' = IF last'.raised # None
              THEN [run EXCEPT !.pc = "raised"]
              ELSE [run EXCEPT !.skipped = @ + 1,
                               !.pc = IF run.skipped + 1 = Len(SkippedTests)
                                      THEN "generate_html" ELSE "skip"]

(* generate_allure_html() (generate_allure_html.py:66-113) and main's return:
   without the allure binary or without the results directory nothing is
   done; else the results are fixed and the binary is run. *)
MainGeneratesReport ==
    /\ run.site = "main"
    /\ run.pc = "generate_html"
    /\ \E installed \in BOOLEAN :
          /\ IF installed /\ dirExists
             THEN FixAllureResults
             ELSE /\ last' = [op |-> "generate_allure_html", raised |-> None,
                              ret |-> FALSE]
                  /\ UNCHANGED <<now, dirExists, entries, nextUuid, logFile,
                                 callsSinceClean>>
          /\ run' = [run EXCEPT !.pc = "returned",
                                !.report = IF installed /\ dirExists
                                           THEN "allure generate" ELSE "nothing",
                                !.ret = MainReturnCode(run.skipped)]

NextMain ==
    \/ MainCleans
    \/ MainTestAttempts
    \/ MainTestReports
    \/ MainSkips
    \/ MainGeneratesReport

SpecMain == InitMain /\ [][NextMain]_vars

(***************************************************************************)
(* BrowserClient.click, fill and wait_for_element                          *)
(* (utils/browser_client.py:113-161)                                       *)
(*                                                                         *)
(* The three methods are the same loop over range(<retry count>), the      *)
(* count read from the environment by config/settings.py.  run.trace holds *)
(* the outcomes of the page actions awaited so far.                        *)
(***************************************************************************)
BrowserMethods == {"click", "fill", "wait_for_element"}

(* int(os.getenv("CLICK_RETRY_COUNT", "3")) and its like
   (config/settings.py:130-132). *)
UiRetryCounts == 0..MaxUiRetryCount

(* CLICK_DELAY and TYPE_DELAY, in milliseconds (config/settings.py:199-200);
   wait_for_element has no delay after its action. *)
ActionDelays(method) == IF method = "wait_for_element" THEN {0} ELSE {0, 1}

(* UI_RETRY_DELAY, in seconds (config/settings.py:126) *)
UiRetryDelay == 1

(* `if attempt == config.CLICK_RETRY_COUNT - 1` (utils/browser_client.py:124) *)
IsLastAttempt(attempt, retry_count) == attempt = retry_count - 1

(* The method is called; with an empty range the loop body never runs and the
   method ends, returning None. *)
BrowserCalled ==
    /\ run.pc = "idle"
    /\ now = 0
    /\ \E method \in BrowserMethods, retry_count \in UiRetryCounts :
          \E delay \in ActionDelays(method) :
             run' = [site |-> method,
                     pc |-> IF retry_count > 0 THEN "attempt" ELSE "returned",
                     retry_count |-> retry_count, delay |-> delay, attempt |-> 0,
                     trace |-> <<>>, raised |-> None]
    /\ last' = [op |-> "call", raised |-> None]
    /\ UNCHANGED <<now, dirExists, entries, nextUuid, logFile, callsSinceClean>>

(* One pass of the loop body: the page action, then the return after the
   delay, or the except clause (utils/browser_client.py:118-125). *)
BrowserAttempts ==
    /\ run.site \in BrowserMethods
    /\ run.pc = "attempt"
    /\ \E ok \in BOOLEAN :
          IF ok
          THEN /\ now' = now + (run.delay * TicksPerMs)
               /\ run' = [run EXCEPT !.trace = Append(@, "ok"), !.pc = "returned"]
          ELSE /\ now' = now
               /\ run' = [run EXCEPT
                     !.trace = Append(@, "failed"),
                     !.pc = IF IsLastAttempt(run.attempt, run.retry_count)
                            THEN "raised" ELSE "sleep",
                     !.raised = IF IsLastAttempt(run.attempt, run.retry_count)
                                THEN "Exception" ELSE None]
    /\ last' = [op |-> "page action", raised |-> None]
    /\ UNCHANGED <<dirExists, entries, nextUuid, logFile, callsSinceClean>>

(* asyncio.sleep(config.UI_RETRY_DELAY), then the next pass or, the range
   exhausted, the end of the method (utils/browser_client.py:126). *)
BrowserSleeps ==
    /\ run.site \in BrowserMethods
    /\ run.pc = "sleep"
    /\ now' = now + (UiRetryDelay * TicksPerSecond)
    /\ run' = [run EXCEPT !.attempt = @ + 1,
                          !.pc = IF run.attempt + 1 < run.retry_count
                                 THEN "attempt" ELSE "returned"]
    /\ last' = [op |-> "asyncio.sleep", raised |-> None]
    /\ UNCHANGED <<dirExists, entries, nextUuid, logFile, callsSinceClean>>

NextBrowser ==
    \/ BrowserCalled
    \/ BrowserAttempts
    \/ BrowserSleeps

SpecBrowser == Init /\ [][NextBrowser]_vars

(***************************************************************************)
(* DataParser (utils/data_parser.py:20-143)                                *)
(*                                                                         *)
(* run.files is the data directory, path -> text, and run.cache is         *)
(* self.cache, path -> Python value.  Python values are tagged with their  *)
(* type as json.load's are above.                                          *)
(***************************************************************************)
PyStr(s) == [type |-> "str", value |-> s]

PyList(q) == [type |-> "list", value |-> q]

PyDict(f) == [type |-> "dict", value |-> f]

PyNone == [type |-> "NoneType", value |-> None]

JSONDecodeError == [type |-> "JSONDecodeError", value |-> None]

ParserPaths == {"data/project.json", "data/notes.txt"}

(* The texts written with write_file and append_file, and the values written
   with write_json. *)
WrittenTexts == {"hi", "[]"}

AppendedTexts == {"!"}

WrittenJson == {PyList(<<>>), PyDict(<<>>)}

(* json.dump(data, f, indent=2, ensure_ascii=False), for the values above. *)
JsonDumps(data) == IF data.type = "list" THEN "[]" ELSE "{}"

(* json.load(f) for the texts a file of the model can hold: the two documents
   above, or text that is no JSON document (JSONDecodeError). *)
JsonLoads(text) ==
    CASE text = "[]" -> PyList(<<>>)
      [] text = "{}" -> PyDict(<<>>)
      [] OTHER -> JSONDecodeError

(* getattr(config, var_name, data): config has no attribute of these names. *)
ConfigValue(var_name, data) == data

(* _resolve_variables (utils/data_parser.py:31-42) *)
RECURSIVE _resolve_variables(_)
_resolve_variables(data) ==
    CASE data.type = "dict" ->
            PyDict([k \in DOMAIN data.value |-> _resolve_variables(data.value[k])])
      [] data.type = "list" ->
            PyList([i \in DOMAIN data.value |-> _resolve_variables(data.value[i])])
      [] data.type = "str" /\ Len(data.value) >= 3 /\ Upto(data.value, 2) = "${"
            /\ EndsWith(data.value, "}") ->
            ConfigValue(SubSeq(data.value, 3, Len(data.value) - 1), data)
      [] OTHER -> data

Put(f, k, v) == [x \in (DOMAIN f) \cup {k} |-> IF x = k THEN v ELSE f[x]]

NoFiles == [x \in {} |-> ""]

NoCache == [x \in {} |-> PyStr("")]

InitParser ==
    /\ now = 0
    /\ dirExists = TRUE
    /\ entries = EmptyDir
    /\ nextUuid = 0
    /\ logFile = NoFile
    /\ last = [op |-> "__init__", raised |-> None]
    /\ callsSinceClean = 0
    /\ run = [site |-> "DataParser", pc |-> "idle", files |-> NoFiles, cache |-> NoCache]

ParserFrame == UNCHANGED <<now, dirExists, entries, nextUuid, logFile, callsSinceClean>>

(* DataParser.read_file (utils/data_parser.py:45-63) *)
ReadFile(path) ==
    /\ IF path \in DOMAIN run.cache
       THEN /\ last' = [op |-> "read_file", raised |-> None, path |-> path,
                        ret |-> run.cache[path]]
            /\ run' = run
       ELSE IF path \in DOMAIN run.files
       THEN /\ last' = [op |-> "read_file", raised |-> None, path |-> path,
                        ret |-> PyStr(run.files[path])]
            /\ run' = [run EXCEPT !.cache = Put(@, path, PyStr(run.files[path]))]
       ELSE /\ last' = [op |-> "read_file", raised |-> None, path |-> path,
                        ret |-> PyStr("")]
            /\ run' = run
    /\ ParserFrame

(* DataParser.write_file (utils/data_parser.py:65-82) *)
WriteFile(content, path) ==
    /\ run' = [run EXCEPT !.files = Put(@, path, content),
                          !.cache = Put(@, path, PyStr(content))]
    /\ last' = [op |-> "write_file", raised |-> None, path |-> path, ret |-> TRUE]
    /\ ParserFrame

(* DataParser.append_file (utils/data_parser.py:84-99) *)
AppendFile(content, path) ==
    /\ LET old == IF path \in DOMAIN run.files THEN run.files[path] ELSE ""
       IN  /\ Len(old) + Len(content) <= MaxTextLen
           /\ run' = [run EXCEPT !.files = Put(@, path, old \o content)]
    /\ last' = [op |-> "append_file", raised |-> None, path |-> path, ret |-> TRUE]
    /\ ParserFrame

(* DataParser.read_json (utils/data_parser.py:102-124) *)
ReadJson(path, resolve_vars) ==
    /\ IF path \in DOMAIN run.cache
       THEN /\ last' = [op |-> "read_json", raised |-> None, path |-> path,
                        ret |-> IF resolve_vars THEN _resolve_variables(run.cache[path])
                                ELSE run.cache[path]]
            /\ run' = run
       ELSE IF path \in DOMAIN run.files /\ JsonLoads(run.files[path]).type # "JSONDecodeError"
       THEN /\ last' = [op |-> "read_json", raised |-> None, path |-> path,
                        ret |-> IF resolve_vars
                                THEN _resolve_variables(JsonLoads(run.files[path]))
                                ELSE JsonLoads(run.files[path])]
            /\ run' = [run EXCEPT !.cache = Put(@, path, JsonLoads(run.files[path]))]
       ELSE /\ last' = [op |-> "read_json", raised |-> None, path |-> path,
                        ret |-> PyNone]
            /\ run' = run
    /\ ParserFrame

(* DataParser.write_json (utils/data_parser.py:126-143) *)
WriteJson(data, path) ==
    /\ run' = [run EXCEPT !.files = Put(@, path, JsonDumps(data)),
                          !.cache = Put(@, path, data)]
    /\ last' = [op |-> "write_json", raised |-> None, path |-> path, ret |-> TRUE]
    /\ ParserFrame

CallReadFile == \E path \in ParserPaths : ReadFile(path)

CallWriteFile == \E content \in WrittenTexts, path \in ParserPaths :
                    WriteFile(content, path)

CallAppendFile == \E content \in AppendedTexts, path \in ParserPaths :
                     AppendFile(content, path)

CallReadJson == \E path \in ParserPaths, resolve_vars \in BOOLEAN :
                   ReadJson(path, resolve_vars)

CallWriteJson == \E data \in WrittenJson, path \in ParserPaths : WriteJson(data, path)

NextParser ==
    \/ CallReadFile
    \/ CallWriteFile
    \/ CallAppendFile
    \/ CallReadJson
    \/ CallWriteJson

SpecParser == InitParser /\ [][NextParser]_vars

(***************************************************************************)
(* generate_test_result and the list its caller passes as `attachments`    *)
(*                                                                         *)
(* A Python list is an object: run.passed is the caller's list as it was   *)
(* when the call was made, run.attachments the same list after the call.   *)
(***************************************************************************)
ScreenshotAttachment ==
    [name |-> "Screenshot", type |-> "image/png", source |-> "failure.png"]

(* The lists passed: empty, or holding one attachment. *)
AttachmentArgs == {<<>>, <<ScreenshotAttachment>>}

(* `all_attachments = attachments or []` (allure_helper.py:82): a non-empty
   list is truthy, and all_attachments is then the caller's list itself. *)
IsCallersList(attachments) == attachments # <<>>

(* The caller's list after the call: all_attachments.append(log_attachment)
   (allure_helper.py:83-86) appends to it when all_attachments is that list. *)
AttachmentsAfterCall(attachments, test_name, log_file) ==
    LET att == IF ~Falsy(log_file) /\ PathExists(log_file)
               THEN _create_log_attachment(log_file, LogAttachmentName(test_name))
               ELSE [ret |-> None, copied |-> FALSE]
    IN  IF IsCallersList(attachments) /\ att.copied
        THEN Append(attachments, att.ret)
        ELSE attachments

CallGenerateWithAttachments ==
    /\ nextUuid < MaxUuids
    /\ \E test_name \in TestNames, w \in Windows, log_file \in {None, LogPath},
          attachments \in AttachmentArgs :
          /\ GenerateTestResult(test_name, "failed", w[1], w[2], None, attachments,
                                None, None, None, log_file, 0)
          /\ run' = [site |-> "caller", pc |-> "idle", passed |-> attachments,
                     attachments |-> AttachmentsAfterCall(attachments, test_name,
                                                          log_file)]

NextArgs ==
    \/ CallGenerateWithAttachments
    \/ LoggerWrites
    \/ Tick

SpecArgs == Init /\ [][NextArgs]_vars

(***************************************************************************)
(* Properties of the results directory                                     *)
(***************************************************************************)
(* C1: every generate_test_result call (given a name, a status and a
   start <= stop pair, or no pair) returns and adds exactly one new
   '<uuid>-result.json' document: the directory holds as many result
   documents as calls were made since the last clean, each stored under its
   own uuid, and each with start <= stop. *)
C1_OneDocumentPerCall ==
    /\ Cardinality(ResultFiles) = callsSinceClean
    /\ \A n \in ResultFiles :
          /\ n = entries[n].data.uuid \o "-result.json"
          /\ entries[n].data.start <= entries[n].data.stop
    /\ last.op = "generate_test_result" =>
          /\ last.raised = None
          /\ (last.ret \o "-result.json") \in ResultFiles

(* Two calls since the last clean, the second with a log to attach. *)
C1_Witness ==
    /\ last.op = "generate_test_result"
    /\ callsSinceClean = 2
    /\ Cardinality(ResultFiles) = 2
    /\ \E n \in DOMAIN entries : EndsWith(n, "_log.txt")

(* C2: after clean_results, called once or twice in a row, on a directory
   that was absent, empty or holding documents, the directory exists and is
   empty. *)
C2_CleanIdempotent ==
    last.op = "clean_results" => (dirExists /\ entries = EmptyDir)

(* clean_results called twice in a row on a directory that did not exist. *)
C2_Witness ==
    /\ last.op = "clean_results"
    /\ last.streak = 2
    /\ last.found = "absent"

(* A file's modification time is within T minutes of the call at `now`. *)
WithinMinutes(n, T) == now - entries[n].mtime <= T * TicksPerMinute

(* C3: clean_old_results(T) removes exactly the regular files of the results
   directory that are older than T minutes, leaves every other entry as it
   was, adds nothing, and does nothing at all when the directory is absent. *)
C3_CleanOldKeepsRecent ==
    [][ (last'.op = "clean_old_results" /\ last' # last) =>
          LET T == last'.older_than_minutes
          IN  /\ dirExists' = dirExists
              /\ DOMAIN entries' \subseteq DOMAIN entries
              /\ \A n \in DOMAIN entries :
                    /\ (n \in DOMAIN entries') <=>
                          (~entries[n].isfile \/ WithinMinutes(n, T))
                    /\ (n \in DOMAIN entries') => entries'[n] = entries[n]
              /\ ~dirExists => entries' = entries ]_vars

(* A call that removed an old file and left a newer file and a
   sub-directory in place. *)
C3_Witness ==
    /\ last.op = "clean_old_results"
    /\ last.cleaned_count >= 1
    /\ \E n \in DOMAIN entries : entries[n].isfile
    /\ \E n \in DOMAIN entries : ~entries[n].isfile

(***************************************************************************)
(* Properties of the result document                                       *)
(***************************************************************************)
(* The document the last generate_test_result call wrote. *)
LastDocument == entries[last.ret \o "-result.json"].data

Returned(op) == last.op = op /\ last.raised = None

(* The call was given no log: the path omitted, or no file at the path. *)
NoLogGiven == last.log_file \in {None, ""} \/ logFile = NoFile

StepNamesOf(steps) == [i \in DOMAIN steps |-> steps[i].name]

LowerCased(status) ==
    CASE status = "FAILED" -> "failed"
      [] status = "passed" -> "passed"
      [] status = "skipped" -> "skipped"

(* C5: with retry_count n > 0 the document's 'retries' array has exactly n
   entries, entries 1..n-1 'failed' and entry n with the final status in
   lower case; with retry_count = 0 the document has no 'retries' field. *)
C5_RetryHistory ==
    Returned("generate_test_result") =>
        LET n == last.retry_count
            d == LastDocument
        IN  IF n > 0
            THEN /\ "retries" \in DOMAIN d
                 /\ Len(d.retries) = n
                 /\ \A i \in 1..(n - 1) : d.retries[i].status = "failed"
                 /\ d.retries[n].status = LowerCased(last.status)
            ELSE "retries" \notin DOMAIN d

(* retry_count = 2 and final status passed: failed, then passed. *)
C5_Witness ==
    /\ Returned("generate_test_result")
    /\ last.retry_count = 2
    /\ last.status = "passed"
    /\ Len(LastDocument.retries) = 2
    /\ LastDocument.retries[1].status = "failed"
    /\ LastDocument.retries[2].status = "passed"

(***************************************************************************)
(* Properties of the log filter                                            *)
(***************************************************************************)
(* The text after "Step <k>: " in a step's name. *)
MessageOf(step) == Split(step.name, ": ", 1)[2]

(* The message field of a log line, for a line that has one. *)
MessageField(line) == Split(Strip(line), " - ", 3)[4]

(* The lines of the log as the filter read them. *)
LinesRead == IF logFile = NoFile \/ ~logFile.readable THEN <<>>
             ELSE logFile.text["latin-1"]

(* C6: no two steps of one _get_logger_steps call carry the same message
   text. *)
C6_NoDuplicateMessages ==
    Returned("_get_logger_steps") =>
        \A i, j \in DOMAIN last.steps :
            i # j => MessageOf(last.steps[i]) # MessageOf(last.steps[j])

(* A log with the same message on two lines, and one step for it. *)
C6_Witness ==
    /\ Returned("_get_logger_steps")
    /\ last.log_file = LogPath
    /\ LinesRead = <<SearchLine, SearchLineAgain>>
    /\ MessageField(SearchLine) = MessageField(SearchLineAgain)
    /\ Len(last.steps) = 1
    /\ MessageOf(last.steps[1]) = MessageField(SearchLine)

(* C7: for the test "Search Project Relay (UI)" and a log of the one line
   SearchLine, the filter takes the line for the test's and the result is the
   one step carrying its message, 'passed'. *)
C7_SearchLineMatches ==
    /\ _is_log_for_this_test(
          "Searching for project: XTM Test Automation team 20251010_185850",
          "Search Project Relay (UI)")
    /\ (/\ Returned("_get_logger_steps")
        /\ last.test_name = "Search Project Relay (UI)"
        /\ last.log_file = LogPath
        /\ logFile = AsciiFile(<<SearchLine>>, 0))
       => /\ Len(last.steps) = 1
          /\ last.steps[1].name =
                "Step 1: Searching for project: XTM Test Automation team 20251010_185850"
          /\ last.steps[1].status = "passed"

C7_Witness ==
    /\ Returned("_get_logger_steps")
    /\ last.test_name = "Search Project Relay (UI)"
    /\ last.log_file = LogPath
    /\ logFile = AsciiFile(<<SearchLine>>, 0)
    /\ Len(last.steps) = 1

(* The five placeholder steps for a test name. *)
ArePlaceholders(steps, test_name) ==
    StepNamesOf(steps) =
        << "Step 1: Starting " \o test_name,
           "Step 2: Initializing test execution",
           "Step 3: Running " \o test_name,
           "Step 4: Processing test results",
           "Step 5: Completed " \o test_name >>

(* The name contains none of the name patterns of the keyword table. *)
HasNoKnownPattern(test_name) ==
    \A i \in DOMAIN KeywordTable : ~Contains(Lower(test_name), KeywordTable[i].pattern)

(* C8: for a test name with none of the known patterns, no log line becomes
   a step, whatever the log holds: the steps are the placeholders. *)
C8_DenyByDefault ==
    (Returned("_get_logger_steps") /\ HasNoKnownPattern(last.test_name)) =>
        ArePlaceholders(last.steps, last.test_name)

(* An orchestrator's name with no pattern, over a log whose lines another
   test's keywords would accept. *)
C8_Witness ==
    /\ Returned("_get_logger_steps")
    /\ last.test_name = "Search Project (UI)"
    /\ last.log_file = LogPath
    /\ LinesRead = <<SearchLine, XtmLine>>
    /\ ArePlaceholders(last.steps, last.test_name)

(* Reading the log failed: no path, no file, a file that cannot be opened,
   or a file that gives no lines. *)
ReadFailed == \/ last.log_file \in {None, ""}
              \/ logFile = NoFile
              \/ ~logFile.readable
              \/ LinesRead = <<>>

(* C10: _get_logger_steps never lets an exception out, and whenever reading
   the log failed it returns the placeholder steps. *)
C10_NeverPropagates ==
    last.op = "_get_logger_steps" =>
        /\ last.raised = None
        /\ ReadFailed => ArePlaceholders(last.steps, last.test_name)

(* A log that exists and cannot be opened. *)
C10_Witness ==
    /\ Returned("_get_logger_steps")
    /\ last.log_file = LogPath
    /\ logFile # NoFile
    /\ ~logFile.readable
    /\ ArePlaceholders(last.steps, last.test_name)

(***************************************************************************)
(* Properties of the callers                                               *)
(***************************************************************************)
(* C9: at every call site an exception raised inside generate_test_result is
   caught: it never ends the caller's run, and the test's result stays what
   the test itself decided. *)
C9_ReportingNeverFailsTheRun ==
    (run.pc # "idle" /\ run.report_raised) =>
        /\ run.pc # "aborted"
        /\ run.pc = "done" => run.result = run.outcome

(***************************************************************************)
(* Properties of the file written                                          *)
(***************************************************************************)
(* The result file the last generate_test_result call wrote, re-read. *)
LastDocumentReloaded == JsonLoad(JsonOfResult(LastDocument))

RequiredFields == {"uuid", "name", "status", "statusDetails", "stage", "start",
                   "stop", "steps", "attachments", "parameters", "labels"}

(* C11: the result file, re-read as JSON, is an object with all of uuid,
   name, status, statusDetails, stage, start, stop, steps, attachments,
   parameters and labels; uuid, name and status are strings, start and stop
   integers, steps and labels arrays; and the file is named
   '<uuid>-result.json' after the uuid it contains. *)
C11_RoundTrip ==
    Returned("generate_test_result") =>
        LET r == LastDocumentReloaded
        IN  /\ r.type = "dict"
            /\ RequiredFields \subseteq DOMAIN r.value
            /\ \A k \in {"uuid", "name", "status"} : r.value[k].type = "str"
            /\ \A k \in {"start", "stop"} : r.value[k].type = "int"
            /\ \A k \in {"steps", "labels", "attachments", "parameters"} :
                  r.value[k].type = "list"
            /\ r.value.statusDetails.type = "dict"
            /\ r.value.uuid.value = last.ret
            /\ r.value.name.value = last.test_name
            /\ (r.value.uuid.value \o "-result.json") \in DOMAIN entries

(* A document with an error detail, a retry history and a log attached. *)
C11_Witness ==
    /\ Returned("generate_test_result")
    /\ "retries" \in DOMAIN LastDocumentReloaded.value
    /\ DOMAIN LastDocumentReloaded.value.statusDetails.value = {"message", "trace"}
    /\ Len(LastDocumentReloaded.value.attachments.value) = 1
    /\ Len(LastDocumentReloaded.value.labels.value) = 4

(* C12: in every result document the error detail (statusDetails.message
   and statusDetails.trace) is present only when the document's status is
   'failed' or 'broken'; a 'passed' or 'skipped' document has empty
   statusDetails. *)
C12_ErrorDetailOnlyWhenFailed ==
    Returned("generate_test_result") =>
        (DOMAIN LastDocument.statusDetails # {} =>
            LastDocument.status \in {"failed", "broken"})

(***************************************************************************)
(* Properties of the lines the filter lets through                         *)
(***************************************************************************)
(* The fields of a log line in the logger's format
   '<timestamp> - <logger_name> - <LEVEL> - <message>'. *)
FieldsOf(line) == Split(Strip(line), " - ", 3)

TimestampField(line) == FieldsOf(line)[1]

LoggerField(line) == FieldsOf(line)[2]

LevelField(line) == FieldsOf(line)[3]

(* The call returned steps made from log lines, not the placeholders. *)
ReturnedLogSteps ==
    /\ Returned("_get_logger_steps")
    /\ ~ArePlaceholders(last.steps, last.test_name)

(* The lines of the log a step's message can have come from. *)
SourceLines(step) ==
    {l \in Range(LinesRead) :
        Len(FieldsOf(l)) >= 4 /\ FieldsOf(l)[4] = MessageOf(step)}

(* C13: a log line becomes a step only if its severity field is INFO and its
   logger-name field is automation_framework: every step comes from such a
   line. *)
C13_OnlyFrameworkInfoLines ==
    ReturnedLogSteps =>
        \A i \in DOMAIN last.steps :
            \E l \in SourceLines(last.steps[i]) :
                /\ LevelField(l) = "INFO"
                /\ LoggerField(l) = "automation_framework"

(* The step status the specification gives a severity token. *)
StatusOfLevel(level) ==
    CASE level = "INFO" -> "passed"
      [] level = "ERROR" -> "failed"
      [] level = "WARNING" -> "broken"
      [] OTHER -> "unknown"

(* C14: the status of every step produced from a log line is derived from
   the line's severity token: INFO 'passed', ERROR 'failed', WARNING
   'broken'. *)
C14_StatusFromSeverity ==
    ReturnedLogSteps =>
        \A i \in DOMAIN last.steps :
            \E l \in SourceLines(last.steps[i]) :
                last.steps[i].status = StatusOfLevel(LevelField(l))

(***************************************************************************)
(* Properties of the times in a document                                   *)
(***************************************************************************)
(* C15: in every result document the start time of every step lies within
   [result.start, result.stop]. *)
C15_StepStartsWithinResult ==
    Returned("generate_test_result") =>
        \A i \in DOMAIN LastDocument.steps :
            /\ LastDocument.start <= LastDocument.steps[i].start
            /\ LastDocument.steps[i].start <= LastDocument.stop

(***************************************************************************)
(* Properties of the timestamps of log lines                               *)
(***************************************************************************)
IsDigit(c) == c \in {"0", "1", "2", "3", "4", "5", "6", "7", "8", "9"}

(* The text has the fixed format 'YYYY-MM-DD HH:MM:SS,mmm'. *)
TimestampParses(text) ==
    /\ Len(text) = 23
    /\ \A i \in {1, 2, 3, 4, 6, 7, 9, 10, 12, 13, 15, 16, 18, 19, 21, 22, 23} :
          IsDigit(CharAt(text, i))
    /\ CharAt(text, 5) = "-" /\ CharAt(text, 8) = "-"
    /\ CharAt(text, 11) = " "
    /\ CharAt(text, 14) = ":" /\ CharAt(text, 17) = ":"
    /\ CharAt(text, 20) = ","

(* C16: a log line whose timestamp field cannot be parsed in the format
   'YYYY-MM-DD HH:MM:SS,mmm' never yields a step: every step comes from a
   line whose timestamp parses. *)
C16_UnparseableTimestampSkipped ==
    ReturnedLogSteps =>
        \A i \in DOMAIN last.steps :
            \E l \in SourceLines(last.steps[i]) : TimestampParses(TimestampField(l))

(***************************************************************************)
(* Properties of the labels                                                *)
(***************************************************************************)
(* The value of the label of a name in the last document. *)
LabelOf(name) ==
    LET l == CHOOSE l \in Range(LastDocument.labels) : l.name = name
    IN  l.value

HasWord(test_name, word) == Contains(Lower(test_name), word)

(* The classification the claim gives a name: <<class, package, suite>>,
   with the generic fallback for every name without 'apollo', 'ui' or
   'browser'. *)
ClaimedLabels(test_name) ==
    IF HasWord(test_name, "apollo")
    THEN <<"TestApollo", "tests.api.test_apollo", "Apollo API Tests">>
    ELSE IF HasWord(test_name, "ui") \/ HasWord(test_name, "browser")
    THEN <<"UITest", "tests.ui", "UI Tests">>
    ELSE <<"TestSuite", "tests", "Test Suite">>

(* The classification with the 'api' tier before the fallback. *)
DerivedLabels(test_name) ==
    IF HasWord(test_name, "apollo")
    THEN <<"TestApollo", "tests.api.test_apollo", "Apollo API Tests">>
    ELSE IF HasWord(test_name, "ui") \/ HasWord(test_name, "browser")
    THEN <<"UITest", "tests.ui", "UI Tests">>
    ELSE IF HasWord(test_name, "api")
    THEN <<"APITest", "tests.api", "API Tests">>
    ELSE <<"TestSuite", "tests", "Test Suite">>

(* The labels written are those of expected where the caller gave none and
   the caller's own where it gave one; Omitted says which arguments count as
   not given. *)
LabelsFollow(expected, Omitted) ==
    Returned("generate_test_result") =>
        /\ LabelOf("testClass") = IF run.test_class \in Omitted
                                  THEN expected[1] ELSE run.test_class
        /\ LabelOf("package") = IF run.package \in Omitted
                                THEN expected[2] ELSE run.package
        /\ LabelOf("suite") = IF run.suite \in Omitted
                              THEN expected[3] ELSE run.suite
        /\ LabelOf("testMethod") = last.test_name

(* C17, as claimed: omitted labels are derived from the name, 'apollo' first,
   then 'ui' or 'browser', otherwise the generic fallback; a label the caller
   gives is written unchanged. *)
C17_LabelsAsClaimed == LabelsFollow(ClaimedLabels(last.test_name), {None})

(* C17, amended: omitted or empty labels are derived from the name, 'apollo'
   first, then 'ui' or 'browser', then 'api' (APITest, tests.api, 'API
   Tests'), otherwise the generic fallback; a non-empty label the caller gives
   is written unchanged. *)
C17_LabelsDerived == LabelsFollow(DerivedLabels(last.test_name), {None, ""})

(* A name with 'apollo' and 'ui' classified as Apollo, its suite given by the
   caller and kept. *)
C17_Witness ==
    /\ Returned("generate_test_result")
    /\ last.test_name = "Apollo UI smoke"
    /\ run.test_class = None
    /\ run.suite = "UI Project Creation Tests"
    /\ LabelOf("testClass") = "TestApollo"
    /\ LabelOf("suite") = "UI Project Creation Tests"

(***************************************************************************)
(* Properties of documents among each other                                *)
(***************************************************************************)
(* The step is a generate_test_result call for a name that has a result
   document already. *)
GeneratesAgain ==
    /\ last'.op = "generate_test_result"
    /\ nextUuid' # nextUuid
    /\ \E n \in ResultFiles : entries[n].data.name = last'.test_name

(* C18: a second generate_test_result call with the same test name returns
   a new uuid, adds its own result file, and leaves every file that was in
   the directory (the first document and the log copy it references) as it
   was. *)
C18_SecondCallIndependent ==
    [][ GeneratesAgain =>
          /\ last'.raised = None
          /\ ResultFileName(last'.ret) \notin DOMAIN entries
          /\ ResultFileName(last'.ret) \in DOMAIN entries'
          /\ \A n \in DOMAIN entries :
                n \in DOMAIN entries' /\ entries'[n] = entries[n] ]_vars

(* C19: a result document is written once and never changed in place: across
   every step of generate_test_result, generate_container and
   fix_allure_results each '<uuid>-result.json' stays as it was, and one
   disappears only by clean_results or clean_old_results. *)
C19_ResultsImmutable ==
    [][ \A n \in ResultFiles :
          /\ n \in DOMAIN entries' => entries'[n] = entries[n]
          /\ n \notin DOMAIN entries' =>
                last'.op \in {"clean_results", "clean_old_results"} ]_vars

(* fix_allure_results has written containers for two result documents, which
   are still there. *)
C19_Witness ==
    /\ last.op = "fix_allure_results"
    /\ last.containers_created = 2
    /\ Cardinality(ResultFiles) = 2

(* The entry holds a container document. *)
IsContainerDocument(n) == "children" \in DOMAIN entries[n].data

(* C20: every container document in the directory has uuid, name, children,
   befores and afters, is stored at '<uuid>-container.json' for its own uuid,
   has a uuid different from every result document's uuid, and lists exactly
   one child. *)
C20_ContainersWellFormed ==
    \A n \in DOMAIN entries :
        IsContainerDocument(n) =>
            /\ DOMAIN entries[n].data = {"uuid", "name", "children", "befores", "afters"}
            /\ n = entries[n].data.uuid \o "-container.json"
            /\ \A m \in ResultFiles : entries[m].data.uuid # entries[n].data.uuid
            /\ Len(entries[n].data.children) = 1

(***************************************************************************)
(* Properties of clean_results racing generate_test_result                 *)
(***************************************************************************)
(* C21: there is no locking between clean_results and generate_test_result.
   As long as no generate_test_result call has run while clean_results was
   under way (strictly sequential execution), no write has failed and, once
   clean_results is over, every document written since it was called is in
   the directory; documents are lost and writes fail only in runs where the two
   overlapped, and such runs exist. *)
C21_SequentialKeepsDocuments ==
    ~run.overlapped =>
        /\ run.failed = 0
        /\ (run.pc = "idle" => Cardinality(ResultFiles) = run.returned)

(* One clean_results call during which one document was written before the
   delete finished and is gone, and another write failed between the delete
   and the recreate. *)
C21_Witness ==
    /\ run.pc = "idle"
    /\ run.overlapped
    /\ run.returned = 1
    /\ run.failed = 1
    /\ ResultFiles = {}
    /\ last.op = "clean_results" /\ last.raised = None

(***************************************************************************)
(* Properties of run_test_with_retry                                       *)
(***************************************************************************)
InRetry == run.site = "run_test_with_retry"

AttemptsAt == {i \in DOMAIN run.trace : run.trace[i].kind = "attempt"}

SleepsAt == {i \in DOMAIN run.trace : run.trace[i].kind = "sleep"}

Succeeded(i) == run.trace[i].kind = "attempt" /\ run.trace[i].returncode = 0

Failed(i) == run.trace[i].kind = "attempt" /\ run.trace[i].returncode # 0

(* C22: run_test_with_retry runs its attempts one after another (each begins
   when what came before it has ended), makes at most max_retries of them and
   none after a successful one, sleeps delay_seconds only between a failed
   attempt and the attempt that follows it, and returns 0 exactly when some
   attempt succeeded. *)
C22_RetryLoop ==
    InRetry =>
        /\ \A i \in DOMAIN run.trace :
              /\ i > 1 => run.trace[i].began = run.trace[i - 1].ended
              /\ run.trace[i].ended >= run.trace[i].began
        /\ Cardinality(AttemptsAt) <= run.max_retries
        /\ \A i \in AttemptsAt : Succeeded(i) => i = Len(run.trace)
        /\ \A i \in SleepsAt :
              /\ i > 1 /\ Failed(i - 1)
              /\ run.trace[i].ended - run.trace[i].began
                    = run.delay_seconds * TicksPerSecond
              /\ run.pc \in {"returned", "raised", "report"} =>
                    i < Len(run.trace) /\ run.trace[i + 1].kind = "attempt"
        /\ run.pc = "returned" =>
              (run.ret = 0 <=> \E i \in AttemptsAt : Succeeded(i))

(* A call that failed twice, slept twice and passed at its third attempt. *)
C22_Witness ==
    /\ InRetry
    /\ run.pc = "returned"
    /\ run.ret = 0
    /\ Len(run.trace) = 5
    /\ Cardinality(SleepsAt) = 2
    /\ Failed(1) /\ Failed(3) /\ Succeeded(5)

(* The one result document in the directory. *)
TheDocument == entries[CHOOSE n \in ResultFiles : TRUE].data

(* C23: a call of run_test_with_retry that returns has written exactly one
   result document.  After k > 1 attempts its name carries
   ' (Attempts: k/max_retries)' and its 'retries' has exactly k entries, the
   last with the document's status; after one attempt the name is the test's
   and there is no 'retries'.  The status is 'passed' exactly when the last
   attempt succeeded. *)
C23_OneDocumentPerRetryCall ==
    (InRetry /\ run.pc = "returned") =>
        LET k == Cardinality(AttemptsAt)
            d == TheDocument
        IN  /\ Cardinality(ResultFiles) = 1
            /\ k > 1 =>
                  /\ d.name = run.test_name \o " (Attempts: " \o ToString(k) \o "/"
                                 \o ToString(run.max_retries) \o ")"
                  /\ "retries" \in DOMAIN d
                  /\ Len(d.retries) = k
                  /\ d.retries[k].status = d.status
            /\ k = 1 =>
                  /\ d.name = run.test_name
                  /\ "retries" \notin DOMAIN d
            /\ d.status = "passed" <=> Succeeded(Len(run.trace))
            /\ d.status \in {"passed", "failed"}

(* A call whose three attempts all failed, reported as one failed document
   with three retry entries. *)
C23_Witness ==
    /\ InRetry
    /\ run.pc = "returned"
    /\ Cardinality(AttemptsAt) = 3
    /\ Cardinality(ResultFiles) = 1
    /\ TheDocument.status = "failed"
    /\ Len(TheDocument.retries) = 3
    /\ TheDocument.name = "Create XTM Project (UI) (Attempts: 3/3)"

(***************************************************************************)
(* Properties of the UI workflow orchestrator                              *)
(***************************************************************************)
InMain == run.site = "main"

(* The result documents reporting the test of that name as skipped. *)
SkippedDocuments(test_name) ==
    {n \in ResultFiles :
        entries[n].data.name = test_name /\ entries[n].data.status = "skipped"}

(* The result documents of that test, whatever their status and attempts. *)
DocumentsOf(test_name) ==
    {n \in ResultFiles :
        /\ Len(entries[n].data.name) >= Len(test_name)
        /\ Upto(entries[n].data.name, Len(test_name)) = test_name}

(* C24: tests 5 to 7 are run exactly when test 4 passed.  When test 4 failed
   none of them is run, each of the three gets exactly one document, of status
   'skipped', the report is generated and main returns 1.  Test 4 is run
   whatever tests 1 to 3 returned. *)
C24_GatedByTestFour ==
    InMain =>
        /\ Len(run.results) > GatingTest => run.results[GatingTest] = 0
        /\ run.pc = "returned" =>
              /\ Len(run.results) >= GatingTest
              /\ Len(run.results) = Len(MainTests) <=> run.results[GatingTest] = 0
              /\ run.report # None
              /\ run.results[GatingTest] # 0 =>
                    /\ Len(run.results) = GatingTest
                    /\ \A i \in DOMAIN SkippedTests :
                          /\ Cardinality(SkippedDocuments(SkippedTests[i])) = 1
                          /\ DocumentsOf(SkippedTests[i]) = SkippedDocuments(SkippedTests[i])
                    /\ run.ret = 1

(* Test 1 failed, test 4 was run all the same and failed too: three skipped
   documents, and main has returned 1. *)
C24_Witness ==
    /\ InMain
    /\ run.pc = "returned"
    /\ run.results = <<1, 0, 0, 1>>
    /\ run.skipped = 3
    /\ \A i \in DOMAIN SkippedTests : Cardinality(SkippedDocuments(SkippedTests[i])) = 1
    /\ run.ret = 1

(* C29: every test name the orchestrator passes to generate_test_result
   contains one of the name patterns of the keyword filter. *)
C29_OrchestratedNamesKnown ==
    (InMain /\ last.op = "generate_test_result") =>
        MatchingBranch(Lower(last.test_name)) # 0

(* C30: main returns 0 only if every test it was meant to run has been run
   and has passed. *)
C30_ZeroOnlyIfAllPassed ==
    (InMain /\ run.pc = "returned" /\ run.ret = 0) =>
        /\ Len(run.results) = Len(MainTests)
        /\ \A i \in DOMAIN run.results : run.results[i] = 0

(***************************************************************************)
(* Properties of the browser client's retry loops                          *)
(***************************************************************************)
(* C25: click, fill and wait_for_element make at most the configured number
   of attempts and none after a successful one, and a call that has returned
   has had a successful attempt: with every attempt failed, or none made, it
   has raised. *)
C25_ReturnsOnlyAfterSuccess ==
    run.site \in BrowserMethods =>
        /\ Len(run.trace) <= run.retry_count
        /\ \A i \in DOMAIN run.trace : run.trace[i] = "ok" => i = Len(run.trace)
        /\ run.pc = "returned" => \E i \in DOMAIN run.trace : run.trace[i] = "ok"

(***************************************************************************)
(* Properties of the intervals in a document                               *)
(***************************************************************************)
EndsAfterItStarts(x) == x.stop >= x.start

(* The retry entries of the document, none where it has no 'retries'. *)
RetriesOf(d) == IF "retries" \in DOMAIN d THEN d.retries ELSE <<>>

(* C26: in the result document of a call whose window does not end before it
   starts, every step and every retry entry, and every step of a retry entry,
   has stop >= start. *)
C26_IntervalsWellOrdered ==
    (Returned("generate_test_result") /\ LastDocument.stop >= LastDocument.start) =>
        /\ \A i \in DOMAIN LastDocument.steps : EndsAfterItStarts(LastDocument.steps[i])
        /\ \A k \in DOMAIN RetriesOf(LastDocument) :
              /\ EndsAfterItStarts(RetriesOf(LastDocument)[k])
              /\ \A i \in DOMAIN RetriesOf(LastDocument)[k].steps :
                    EndsAfterItStarts(RetriesOf(LastDocument)[k].steps[i])

(***************************************************************************)
(* Properties of the data parser's cache                                   *)
(***************************************************************************)
(* What is in the file now, as read_file and as read_json are to return it. *)
CurrentText(path) ==
    IF path \in DOMAIN run.files THEN PyStr(run.files[path]) ELSE PyStr("")

CurrentJson(path) ==
    IF path \in DOMAIN run.files /\ JsonLoads(run.files[path]).type # "JSONDecodeError"
    THEN JsonLoads(run.files[path]) ELSE PyNone

(* Two Python values are equal: of the same type and the same value. *)
SameValue(a, b) == a.type = b.type /\ a.value = b.value

(* C27: read_file returns the current text of the file and read_json its
   current parsed value, whatever was read or written before. *)
C27_CacheCoherent ==
    run.site = "DataParser" =>
        /\ last.op = "read_file" => SameValue(last.ret, CurrentText(last.path))
        /\ last.op = "read_json" => SameValue(last.ret, CurrentJson(last.path))

(***************************************************************************)
(* Properties of the arguments of generate_test_result                     *)
(***************************************************************************)
(* C28: after generate_test_result the list the caller passed as
   `attachments` has the elements it had before the call. *)
C28_AttachmentsArgumentUnchanged ==
    run.site = "caller" => run.attachments = run.passed

====
